---- MODULE Spec2Model ----
(***************************************************************************)
(* A model of the TikTok metadata-resolution and media-relay service:      *)
(* the URL validator, the result cache, the metadata extractor (page       *)
(* scraping and JSON API variants), fetchMetadata, and the fetch and       *)
(* download route handlers with the streaming relay.                       *)
(*                                                                         *)
(* JavaScript strings that the code takes apart (host names, paths,        *)
(* captions, user names) are sequences of one-character strings; strings   *)
(* the code only passes along (media addresses) are one-element sequences  *)
(* holding the whole string.  null and undefined are the one-element       *)
(* sequences NULL and UNDEF, so every JavaScript value is a sequence.      *)
(***************************************************************************)
EXTENDS Integers, Sequences, FiniteSets, TLC

VARIABLES
  variant,  \* which fetchMetadata is deployed: page scraping or the JSON API
  now,      \* the clock, in seconds
  cache,    \* the result cache
  req,      \* the requests in progress
  calls,    \* how many requests have arrived
  stored,   \* history: per host and path, the last record fetchMetadata stored, and when
  arg,      \* the argument of a function applied on its own
  ret       \* and its result

vars == <<variant, now, cache, req, calls, stored, arg, ret>>

-----------------------------------------------------------------------------
(* Bounds of the model.                                                    *)

MaxCalls == 2

Step == 200

MaxTime == 450

(* Program constants.                                                      *)

stdTTL == 300

-----------------------------------------------------------------------------
(* JavaScript values.                                                      *)

NULL == <<"null">>

UNDEF == <<"undefined">>

EMPTY == <<>>

\* a JavaScript number is the one-element sequence <<"num:<digits>">>
ZERO == <<"num:0">>

NUM7 == <<"num:7">>

\* the values JavaScript treats as true in a condition
JsTruthy(v) == v \notin {NULL, UNDEF, EMPTY, ZERO}

\* a || b
JsOr(a, b) == IF JsTruthy(a) THEN a ELSE b

Range(s) == {s[i] : i \in 1..Len(s)}

-----------------------------------------------------------------------------
(* Characters and the regular-expression fragments the validator uses.     *)

UpperCase == <<"A","B","C","D","E","F","G","H","I","J","K","L","M",
               "N","O","P","Q","R","S","T","U","V","W","X","Y","Z">>

LowerCase == <<"a","b","c","d","e","f","g","h","i","j","k","l","m",
               "n","o","p","q","r","s","t","u","v","w","x","y","z">>

Digits == {"0","1","2","3","4","5","6","7","8","9"}

UpperSet == Range(UpperCase)

WordChars == UpperSet \cup Range(LowerCase) \cup Digits \cup {"_"}

LowerChar(c) ==
  IF c \in UpperSet
    THEN LowerCase[CHOOSE i \in 1..26 : UpperCase[i] = c]
    ELSE c

toLowerCase(s) == [i \in 1..Len(s) |-> LowerChar(s[i])]

LitAt(s, i, lit) ==
  /\ i >= 1
  /\ i + Len(lit) - 1 <= Len(s)
  /\ SubSeq(s, i, i + Len(lit) - 1) = lit

StartsWith(s, lit) == LitAt(s, 1, lit)

ClassAt(s, i, class) == i >= 1 /\ i <= Len(s) /\ s[i] \in class

VideoLit == <<"/","v","i","d","e","o","/">>

\* /\/@[\w.-]+\/video\/\d+/
MatchStandard(p) ==
  \E i \in 1..Len(p) : \E j \in 1..Len(p) :
    /\ LitAt(p, i, <<"/","@">>)
    /\ j >= i + 2
    /\ \A k \in (i + 2)..j : p[k] \in WordChars \cup {".", "-"}
    /\ LitAt(p, j + 1, VideoLit)
    /\ ClassAt(p, j + 8, Digits)

\* /\/t\/[\w-]+/
MatchShort(p) ==
  \E i \in 1..Len(p) :
    LitAt(p, i, <<"/","t","/">>) /\ ClassAt(p, i + 3, WordChars \cup {"-"})

\* /\/v\/\d+/
MatchAlt(p) ==
  \E i \in 1..Len(p) :
    LitAt(p, i, <<"/","v","/">>) /\ ClassAt(p, i + 3, Digits)

\* /\/share\/video\/\d+/
MatchShare(p) ==
  \E i \in 1..Len(p) :
    LitAt(p, i, <<"/","s","h","a","r","e">> \o VideoLit) /\ ClassAt(p, i + 13, Digits)

-----------------------------------------------------------------------------
(* URLs.  A URL string is given by its parts; ok = FALSE is a string that  *)
(* new URL() rejects.  query is a sequence of <<name, value>> pairs.       *)

MkUrl(protocol, hostname, pathname, query) ==
  [ok |-> TRUE, protocol |-> protocol, hostname |-> hostname,
   pathname |-> pathname, query |-> query]

BadUrl == [ok |-> FALSE, protocol |-> "", hostname |-> <<>>,
           pathname |-> <<>>, query |-> <<>>]

\* new URL(s): the host name of a parsed URL is lower-cased
NewURL(s) == [s EXCEPT !.hostname = toLowerCase(s.hostname)]

HostTiktok == <<"t","i","k","t","o","k",".","c","o","m">>

validDomains == { HostTiktok,
                  <<"w","w","w",".">> \o HostTiktok,
                  <<"m",".">> \o HostTiktok,
                  <<"v","m",".">> \o HostTiktok }

\* a host check by suffix: hostname.endsWith('tiktok.com')
isValidTikTokURL_SuffixHost(urlString) ==
  IF ~urlString.ok THEN FALSE
  ELSE LET url == NewURL(urlString)
           hostname == toLowerCase(url.hostname)
           pathname == toLowerCase(url.pathname)
       IN IF ~(Len(hostname) >= Len(HostTiktok)
                /\ LitAt(hostname, Len(hostname) - Len(HostTiktok) + 1, HostTiktok))
            THEN FALSE
          ELSE \/ MatchStandard(pathname)
               \/ MatchShort(pathname)
               \/ MatchAlt(pathname)
               \/ MatchShare(pathname)

isValidTikTokURL(urlString) ==
  IF ~urlString.ok THEN FALSE
  ELSE LET url == NewURL(urlString)
           hostname == toLowerCase(url.hostname)
           pathname == toLowerCase(url.pathname)
       IN IF hostname \notin validDomains THEN FALSE
          ELSE \/ MatchStandard(pathname)
               \/ MatchShort(pathname)
               \/ MatchAlt(pathname)
               \/ MatchShare(pathname)

isValidDownloadType(type) == type \in {"nowm", "wm", "audio"}

\* a pattern that covers 172.16 to 172.19 only
Match172_TeensOnly(h) ==
  /\ StartsWith(h, <<"1","7","2",".">>)
  /\ ClassAt(h, 5, {"1"}) /\ ClassAt(h, 6, {"6","7","8","9"})
  /\ ClassAt(h, 7, {"."})

\* /^172\.(1[6-9]|2[0-9]|3[0-1])\./
Match172(h) ==
  /\ StartsWith(h, <<"1","7","2",".">>)
  /\ \/ ClassAt(h, 5, {"1"}) /\ ClassAt(h, 6, {"6","7","8","9"})
     \/ ClassAt(h, 5, {"2"}) /\ ClassAt(h, 6, Digits)
     \/ ClassAt(h, 5, {"3"}) /\ ClassAt(h, 6, {"0","1"})
  /\ ClassAt(h, 7, {"."})

blockedPatterns(h) ==
  \/ h = <<"l","o","c","a","l","h","o","s","t">>
  \/ StartsWith(h, <<"1","2","7",".">>)
  \/ StartsWith(h, <<"1","0",".">>)
  \/ StartsWith(h, <<"1","9","2",".","1","6","8",".">>)
  \/ Match172(h)
  \/ StartsWith(h, <<"1","6","9",".","2","5","4",".">>)
  \/ StartsWith(h, <<"0",".">>)
  \/ h = <<":",":","1">>
  \/ StartsWith(h, <<"f","e","8","0",":">>)
  \/ StartsWith(h, <<"f","c","0","0",":">>)
  \/ StartsWith(h, <<"f","d","0","0",":">>)

isSSRFSafe(urlString) ==
  IF ~urlString.ok THEN FALSE
  ELSE LET url == NewURL(urlString)
           hostname == toLowerCase(url.hostname)
       IN IF blockedPatterns(hostname) THEN FALSE
          ELSE IF url.protocol \notin {"http:", "https:"} THEN FALSE
          ELSE TRUE

\* the end of the longest run of characters of class that begins at k
RunEnd(p, k, class) ==
  CHOOSE e \in k..Len(p) :
    /\ \A x \in k..e : p[x] \in class
    /\ e = Len(p) \/ p[e + 1] \notin class

Leftmost(S) == CHOOSE i \in S : \A j \in S : i <= j

\* pathname.match(/\/@[\w.-]+\/video\/(\d+)/): the group of the leftmost match
CaptureStandard(p) ==
  LET at == {i \in 1..Len(p) :
               /\ LitAt(p, i, <<"/","@">>)
               /\ ClassAt(p, i + 2, WordChars \cup {".", "-"})
               /\ LET j == RunEnd(p, i + 2, WordChars \cup {".", "-"})
                  IN LitAt(p, j + 1, VideoLit) /\ ClassAt(p, j + 8, Digits)}
  IN IF at = {} THEN NULL
     ELSE LET j == RunEnd(p, Leftmost(at) + 2, WordChars \cup {".", "-"})
          IN SubSeq(p, j + 8, RunEnd(p, j + 8, Digits))

\* the group of the leftmost match of a literal followed by ([class]+)
CaptureAfter(p, lit, class) ==
  LET at == {i \in 1..Len(p) : LitAt(p, i, lit) /\ ClassAt(p, i + Len(lit), class)}
  IN IF at = {} THEN NULL
     ELSE SubSeq(p, Leftmost(at) + Len(lit), RunEnd(p, Leftmost(at) + Len(lit), class))

\* each pattern that matches overwrites videoId; the path is used as written
extractVideoId(urlString) ==
  IF ~urlString.ok THEN NULL
  ELSE LET pathname == NewURL(urlString).pathname
           v1 == CaptureStandard(pathname)
           v2 == JsOr(CaptureAfter(pathname, <<"/","t","/">>, WordChars \cup {"-"}), v1)
           v3 == JsOr(CaptureAfter(pathname, <<"/","v","/">>, Digits), v2)
       IN JsOr(CaptureAfter(pathname, <<"/","s","h","a","r","e">> \o VideoLit, Digits), v3)

paramsToRemove == {"_r", "checksum", "u_code", "preview_pb", "language", "timestamp"}

\* url.searchParams: a parameter written without '=' has the empty value
searchParams(query) ==
  [i \in 1..Len(query) |-> IF Len(query[i]) = 1 THEN <<query[i][1], "">> ELSE query[i]]

\* a sanitizeURL that stops at the first tracking parameter it removes
sanitizeURL_FirstOnly(urlString) ==
  IF ~urlString.ok THEN [threw |-> TRUE, msg |-> <<"Invalid URL format">>, value |-> [none |-> TRUE]]
  ELSE LET url == NewURL(urlString)
           params == searchParams(url.query)
           hits == {i \in 1..Len(params) : params[i][1] \in paramsToRemove}
           first == IF hits = {} THEN 0 ELSE CHOOSE i \in hits : \A j \in hits : i <= j
       IN [threw |-> FALSE, msg |-> <<>>,
           value |-> [url EXCEPT !.query =
                        [k \in 1..(Len(params) - (IF first = 0 THEN 0 ELSE 1)) |->
                           IF first = 0 \/ k < first THEN params[k] ELSE params[k + 1]]]]

\* url.searchParams.delete(param) for each tracking parameter, which writes
\* the remaining parameters back, then toString(); 'Invalid URL format' when
\* new URL() throws
sanitizeURL(urlString) ==
  IF ~urlString.ok THEN [threw |-> TRUE, msg |-> <<"Invalid URL format">>, value |-> [none |-> TRUE]]
  ELSE LET url == NewURL(urlString)
           params == searchParams(url.query)
       IN [threw |-> FALSE, msg |-> <<>>,
           value |-> [url EXCEPT !.query =
                        SelectSeq(params, LAMBDA kv : kv[1] \notin paramsToRemove)]]

\* a key that keeps the query string
getCacheKey_WithQuery(url) ==
  LET u == NewURL(url)
  IN u.hostname \o u.pathname \o (IF u.query = <<>> THEN <<>> ELSE <<"?">>)

\* `${u.hostname}${u.pathname}`
getCacheKey(url) ==
  LET u == NewURL(url) IN u.hostname \o u.pathname

-----------------------------------------------------------------------------
(* Strings: trim() and split(' ')[0].                                      *)

WhiteSpace == {" ", "\t", "\n"}

RECURSIVE trimStart(_)
trimStart(s) ==
  IF s # <<>> /\ Head(s) \in WhiteSpace THEN trimStart(Tail(s)) ELSE s

RECURSIVE trimEnd(_)
trimEnd(s) ==
  IF s # <<>> /\ s[Len(s)] \in WhiteSpace THEN trimEnd(SubSeq(s, 1, Len(s) - 1)) ELSE s

trim(s) == trimEnd(trimStart(s))

\* s.split(' ')[0]: the text before the first space
RECURSIVE splitFirst(_)
splitFirst(s) ==
  IF s = <<>> \/ Head(s) = " " THEN <<>> ELSE <<Head(s)>> \o splitFirst(Tail(s))

\* String(v)
String(v) ==
  CASE v = NUM7 -> <<"7">>
    [] v = ZERO -> <<"0">>
    [] v = NULL -> <<"n","u","l","l">>
    [] v = UNDEF -> <<"u","n","d","e","f","i","n","e","d">>
    [] OTHER -> v

-----------------------------------------------------------------------------
(* The metadata extractor, page-scraping variant.                          *)
(* A page is [sigi, univ, meta]: the two embedded-state blobs as the       *)
(* regular expression and JSON.parse see them, and the meta tags as        *)
(* cheerio's attr('content') returns them (UNDEF when the tag is absent).  *)

NoItem == [none |-> TRUE]

EmptyMetadata ==
  [username |-> NULL, caption |-> NULL, thumbnail |-> NULL, no_wm |-> NULL,
   wm |-> NULL, audio |-> NULL, video_id |-> NULL]

AssignMedia(m, videoAddr, coverAddr, musicAddr) ==
  [m EXCEPT !.no_wm = IF JsTruthy(videoAddr) THEN videoAddr ELSE @,
            !.wm = IF JsTruthy(videoAddr) THEN videoAddr ELSE @,
            !.thumbnail = IF JsTruthy(coverAddr) THEN coverAddr ELSE @,
            !.audio = IF JsTruthy(musicAddr) THEN musicAddr ELSE @]

\* Method 1: SIGI_STATE
Method1(page, m) ==
  IF page.sigi.state = "ok" /\ page.sigi.item # NoItem
    THEN LET videoData == page.sigi.item
             m1 == [m EXCEPT !.username = JsOr(videoData.uniqueId, videoData.authorId),
                             !.caption = JsOr(videoData.desc, EMPTY),
                             !.video_id = videoData.id]
         IN AssignMedia(m1,
                        JsOr(videoData.downloadAddr, videoData.playAddr),
                        JsOr(videoData.cover, videoData.dynamicCover),
                        videoData.playUrl)
    ELSE m

Method2Body(page, m) ==
  IF page.univ.state = "ok" /\ page.univ.statusCode = 0 /\ page.univ.item # NoItem
    THEN LET videoData == page.univ.item
             m1 == [m EXCEPT !.username = videoData.uniqueId,
                             !.caption = JsOr(videoData.desc, EMPTY),
                             !.video_id = videoData.id]
         IN AssignMedia(m1,
                        JsOr(videoData.downloadAddr, videoData.playAddr),
                        videoData.cover,
                        videoData.playUrl)
    ELSE m

\* Method 2: __UNIVERSAL_DATA_FOR_REHYDRATION__, only if username is unset
Method2(page, m) ==
  IF ~JsTruthy(m.username) THEN Method2Body(page, m) ELSE m

\* Method 3: meta tags, only if username is still unset
Method3(page, m) ==
  IF ~JsTruthy(m.username)
    THEN [m EXCEPT !.username = JsOr(page.meta.profileUsername,
                                     IF page.meta.twitterTitle = UNDEF THEN UNDEF
                                     ELSE splitFirst(page.meta.twitterTitle)),
                   !.caption = JsOr(page.meta.ogDescription, page.meta.description),
                   !.thumbnail = page.meta.ogImage]
    ELSE m

TrimCaption(m) ==
  IF JsTruthy(m.caption) THEN [m EXCEPT !.caption = trim(m.caption)] ELSE m

extractMetadataFromHTML(page) ==
  TrimCaption(Method3(page, Method2(page, Method1(page, EmptyMetadata))))

-----------------------------------------------------------------------------
(* The metadata extractor, JSON-API variant.  A body is [code, data].      *)

NoData == [none |-> TRUE]

apiMetadata(d) ==
  [username |-> JsOr(JsOr(d.unique_id, d.nickname), NULL),
   caption |-> trim(JsOr(d.title, EMPTY)),
   thumbnail |-> JsOr(JsOr(d.cover, d.origin_cover), NULL),
   no_wm |-> JsOr(d.play, NULL),
   wm |-> JsOr(JsOr(d.wmplay, d.play), NULL),
   audio |-> JsOr(d.music, NULL),
   video_id |-> String(JsOr(d.id, EMPTY))]

\* body.code !== 0 || !body.data
apiBodyRejected(body) == body.code # 0 \/ body.data = NoData

\* a check that rejects only when both are missing (&& for ||)
metadataRejected_And(metadata) ==
  ~JsTruthy(metadata.username) /\ ~JsTruthy(metadata.video_id)

\* a check of the username alone
metadataRejected_UsernameOnly(metadata) == ~JsTruthy(metadata.username)

\* !metadata.username || !metadata.video_id
metadataRejected(metadata) ==
  ~JsTruthy(metadata.username) \/ ~JsTruthy(metadata.video_id)

-----------------------------------------------------------------------------
(* resolveDownloadUrl, getDirectDownloadURL, the HTTP client.              *)

NoValue == [none |-> TRUE]

Throw(msg) == [threw |-> TRUE, msg |-> msg, value |-> NoValue]

Return(v) == [threw |-> FALSE, msg |-> <<>>, value |-> v]

\* error.message.includes(text): a message is a sequence of its parts
includes(msg, text) == text \in Range(msg)

\* a resolveDownloadUrl whose 'wm' does not fall back to no_wm
resolveDownloadUrl_NoFallback(type, metadata) ==
  CASE type = "nowm" -> Return(metadata.no_wm)
    [] type = "wm" -> Return(metadata.wm)
    [] type = "audio" -> Return(metadata.audio)
    [] OTHER -> Throw(<<"Invalid download type">>)

resolveDownloadUrl(type, metadata) ==
  CASE type = "nowm" -> Return(metadata.no_wm)
    [] type = "wm" -> Return(JsOr(metadata.wm, metadata.no_wm))
    [] type = "audio" -> Return(metadata.audio)
    [] OTHER -> Throw(<<"Invalid download type">>)

\* what the network does with one request
NoBody == [none |-> TRUE]

NetTimeout == [kind |-> "timeout", status |-> 0, data |-> NoBody]

NetReset == [kind |-> "reset", status |-> 0, data |-> NoBody]

NetHttp(status, data) == [kind |-> "http", status |-> status, data |-> data]

\* httpClient.get default: status >= 200 && status < 300
StatusBelowGet == 300

\* getDirectDownloadURL: status >= 200 && status < 400
StatusBelowDirect == 400

HttpText(status) ==
  CASE status = 403 -> "HTTP 403"
    [] status = 404 -> "HTTP 404"
    [] OTHER -> "HTTP other"

\* the catch block of httpClient.get / httpClient.stream
\* a catch block that looks at the attached response first
httpClientError_ResponseFirst(net, timeoutText) ==
  IF net.status # 0 THEN Throw(<<HttpText(net.status)>>)
  ELSE IF net.kind = "timeout" THEN Throw(<<timeoutText>>)
  ELSE Throw(<<"Network error">>)

\* (kind "timeout" is error.code ECONNABORTED; a status other than 0 is an
\* attached error.response)
httpClientError(net, timeoutText) ==
  IF net.kind = "timeout" THEN Throw(<<timeoutText>>)
  ELSE IF net.status # 0 THEN Throw(<<HttpText(net.status)>>)
  ELSE Throw(<<"Network error">>)

\* this.timeout
DefaultTimeout == 30000

DefaultMaxRedirects == 5

\* the empty object {}
NoProps == [k \in {} |-> TRUE]

\* { ...a, ...b }
ObjectSpread(a, b) ==
  [k \in DOMAIN a \cup DOMAIN b |-> IF k \in DOMAIN b THEN b[k] ELSE a[k]]

\* getRandomHeaders: userAgent is what this.userAgent.toString() gave
getRandomHeaders(userAgent) ==
  ("User-Agent" :> userAgent) @@ ("Accept" :> "text/html,application/xhtml+xml")
    @@ ("Accept-Language" :> "en-US,en;q=0.9") @@ ("Accept-Encoding" :> "gzip, deflate, br")
    @@ ("DNT" :> "1") @@ ("Connection" :> "keep-alive")
    @@ ("Upgrade-Insecure-Requests" :> "1") @@ ("Sec-Fetch-Site" :> "none")
    @@ ("Sec-Fetch-Mode" :> "navigate") @@ ("Sec-Fetch-User" :> "?1")
    @@ ("Sec-Fetch-Dest" :> "document") @@ ("Cache-Control" :> "max-age=0")

\* options.headers, to be spread: nothing when the options have no headers
headersOf(options) ==
  IF "headers" \in DOMAIN options THEN options.headers ELSE NoProps

\* the config object that httpClient.get hands to axios
getConfig(url, options, userAgent) ==
  ObjectSpread([method |-> "GET", url |-> url, timeout |-> DefaultTimeout,
                headers |-> ObjectSpread(getRandomHeaders(userAgent), headersOf(options)),
                maxRedirects |-> DefaultMaxRedirects,
                validateStatus |-> StatusBelowGet],
               options)

\* the config object that httpClient.stream hands to axios
streamConfig(url, options, userAgent) ==
  ObjectSpread([method |-> "GET", url |-> url, responseType |-> "stream",
                timeout |-> DefaultTimeout,
                headers |-> ObjectSpread(getRandomHeaders(userAgent), headersOf(options)),
                maxRedirects |-> DefaultMaxRedirects],
               options)

\* the options fetchMetadata passes to httpClient.get
fetchOptions(v, sanitizedURL) ==
  IF v = "html"
    THEN [headers |-> ("Referer" :> "https://www.tiktok.com/")
                        @@ ("Origin" :> "https://www.tiktok.com")]
    ELSE [params |-> [url |-> sanitizedURL],
          headers |-> ("Accept" :> "application/json")]

\* the options getDirectDownloadURL passes to httpClient.get
directOptions == [maxRedirects |-> 10, validateStatus |-> StatusBelowDirect]

\* the options the download route passes to httpClient.stream
streamOptions == [timeout |-> 60000, responseType |-> "stream"]

\* validateStatus is status >= 200 && status < below
httpClientGet(net, below) ==
  IF net.kind = "http" /\ net.status >= 200 /\ net.status < below
    THEN Return(net.data)
    ELSE httpClientError(net, "Request timeout")

httpClientStream(net) ==
  \* stream() sets no validateStatus: axios' own default, 2xx
  IF net.kind = "http" /\ net.status >= 200 /\ net.status < 300
    THEN Return(net.data)
    ELSE httpClientError(net, "Stream timeout")

\* a getDirectDownloadURL that prefers the configured URL to the final one
getDirectDownloadURL_ConfigFirst(url, net) ==
  LET got == httpClientGet(net, StatusBelowDirect)
  IN IF got.threw THEN url
     ELSE IF ~got.value.hasRequest THEN url
     ELSE JsOr(JsOr(got.value.configUrl, got.value.responseUrl), url)

\* a response to the redirect-resolution GET: data is
\* [hasRequest, responseUrl, configUrl]
getDirectDownloadURL(url, net) ==
  LET got == httpClientGet(net, StatusBelowDirect)
  IN IF got.threw THEN url
     ELSE IF ~got.value.hasRequest THEN url
     ELSE JsOr(JsOr(got.value.responseUrl, got.value.configUrl), url)

getFileExtension(type) ==
  CASE type \in {"nowm", "wm"} -> ".mp4"
    [] type = "audio" -> ".mp3"
    [] OTHER -> ".mp4"

\* the characters of a download type, for `${type}`
TypeChars(type) ==
  CASE type = "nowm" -> <<"n","o","w","m">>
    [] type = "wm" -> <<"w","m">>
    [] type = "audio" -> <<"a","u","d","i","o">>
    [] type = "gif" -> <<"g","i","f">>
    [] OTHER -> <<>>

\* the decimal digits of a number, for `${timestamp}`
DecimalOf(n) ==
  LET digit(d) == CASE d = 0 -> "0" [] d = 1 -> "1" [] d = 2 -> "2" [] d = 3 -> "3"
                    [] d = 4 -> "4" [] d = 5 -> "5" [] d = 6 -> "6" [] d = 7 -> "7"
                    [] d = 8 -> "8" [] OTHER -> "9"
      width == IF n < 10 THEN 1 ELSE IF n < 100 THEN 2 ELSE IF n < 1000 THEN 3 ELSE 4
      pow(k) == CASE k = 0 -> 1 [] k = 1 -> 10 [] k = 2 -> 100 [] OTHER -> 1000
  IN [i \in 1..width |-> digit((n \div pow(width - i)) % 10)]

\* Date.now(): the handlers only print it, and the model reads one instant
DateNow == DecimalOf(1730)

\* a generateFilename that uses the user name as it is
generateFilename_Unsafe(metadata, type, timestamp) ==
  LET username == JsOr(metadata.username, <<"u","n","k","n","o","w","n">>)
      videoId == JsOr(metadata.video_id, <<"v","i","d","e","o">>)
  IN username \o <<"_">> \o String(videoId) \o <<"_">> \o TypeChars(type)
       \o <<"_">> \o timestamp \o
       (IF getFileExtension(type) = ".mp3" THEN <<".","m","p","3">> ELSE <<".","m","p","4">>)

\* generateFilename; timestamp is the digits of Date.now()
generateFilename(metadata, type, timestamp) ==
  LET username == JsOr(metadata.username, <<"u","n","k","n","o","w","n">>)
      videoId == JsOr(metadata.video_id, <<"v","i","d","e","o">>)
      safeUsername == [i \in 1..Len(username) |->
                         IF username[i] \in WordChars \cup {"-"} THEN username[i] ELSE "_"]
  IN safeUsername \o <<"_">> \o String(videoId) \o <<"_">> \o TypeChars(type)
       \o <<"_">> \o timestamp \o
       (IF getFileExtension(type) = ".mp3" THEN <<".","m","p","3">> ELSE <<".","m","p","4">>)

\* an errorHandler without the 'Failed to fetch TikTok metadata' case
errorHandler_NoFetchCase(msg) ==
  IF includes(msg, "Invalid or unsupported TikTok URL") THEN 400
  ELSE IF includes(msg, "Request timeout") THEN 504
  ELSE IF includes(msg, "Network error") THEN 503
  ELSE IF includes(msg, "HTTP 403") THEN 403
  ELSE IF includes(msg, "HTTP 404") THEN 404
  ELSE IF includes(msg, "Invalid download type") THEN 400
  ELSE IF includes(msg, "URL not allowed") THEN 400
  ELSE IF includes(msg, "validation") THEN 400
  ELSE 500

\* errorHandler: the first matching text decides the status
errorHandler(msg) ==
  IF includes(msg, "Invalid or unsupported TikTok URL") THEN 400
  ELSE IF includes(msg, "Failed to fetch TikTok metadata") THEN 422
  ELSE IF includes(msg, "Request timeout") THEN 504
  ELSE IF includes(msg, "Network error") THEN 503
  ELSE IF includes(msg, "HTTP 403") THEN 403
  ELSE IF includes(msg, "HTTP 404") THEN 404
  ELSE IF includes(msg, "Invalid download type") THEN 400
  ELSE IF includes(msg, "URL not allowed") THEN 400
  ELSE IF includes(msg, "validation") THEN 400
  ELSE 500

-----------------------------------------------------------------------------
(* The result cache (node-cache with stdTTL): a function from the keys it  *)
(* holds to [v, t], t the time the entry expires.                          *)

Miss == [miss |-> TRUE]

\* an entry is live unless its expiry time is before now
Live(c, key, t) == key \in DOMAIN c /\ ~(c[key].t < t)

CacheGet(c, key, t) == IF Live(c, key, t) THEN c[key].v ELSE Miss

\* get() and the periodic check delete the expired entries they meet
CacheDrop(c, keys) == [k \in DOMAIN c \ keys |-> c[k]]

CacheAfterGet(c, key, t) ==
  IF key \in DOMAIN c /\ ~Live(c, key, t) THEN CacheDrop(c, {key}) ELSE c

\* a set that keeps the entry already there
CacheSet_KeepFirst(c, key, v, t) ==
  [k \in DOMAIN c \cup {key} |->
     IF k \in DOMAIN c THEN c[k] ELSE [v |-> v, t |-> t + stdTTL]]

CacheSet(c, key, v, t) ==
  [k \in DOMAIN c \cup {key} |-> IF k = key THEN [v |-> v, t |-> t + stdTTL] ELSE c[k]]

-----------------------------------------------------------------------------
(* The inputs the model draws from.                                        *)

HostWww == <<"w","w","w",".">> \o HostTiktok

HostVm == <<"v","m",".">> \o HostTiktok

PathVideo == <<"/","@","u","/","v","i","d","e","o","/","1">>

PathShort == <<"/","t","/","a","b">>

UrlA == MkUrl("https:", HostWww, PathVideo, <<>>)

UrlATracked == MkUrl("https:", HostWww, PathVideo, << <<"_r", "1">>, <<"lang", "en">> >>)

UrlB == MkUrl("https:", HostVm, PathShort, <<>>)

UrlYoutube == MkUrl("https:", <<"y","o","u","t","u","b","e",".","c","o","m">>,
                    <<"/","w","a","t","c","h">>, <<>>)

UrlFtp == MkUrl("ftp:", HostWww, PathVideo, <<>>)

Urls == {UrlA, UrlATracked, UrlB, UrlYoutube, UrlFtp, BadUrl}

RouteUrls == {UrlA, UrlATracked, UrlYoutube, UrlFtp}

Types == {"nowm", "wm", "audio", "gif"}

Kinds == {"call", "fetch", "download"}

Alice == <<"a","l","i","c","e">>

Bob == <<"b","o","b">>

Item1 ==
  [uniqueId |-> Alice, authorId |-> <<"u","1">>, desc |-> <<" ","h","i"," ">>,
   id |-> <<"1","1","1">>, downloadAddr |-> <<"cdn/dl1.mp4">>,
   playAddr |-> <<"cdn/play1.mp4">>, cover |-> <<"cdn/cover1.jpg">>,
   dynamicCover |-> <<"cdn/dyn1.gif">>, playUrl |-> <<"cdn/music1.mp3">>]

\* no download address (a play address only), no music, a numeric id
Item2 ==
  [uniqueId |-> Bob, authorId |-> UNDEF, desc |-> UNDEF,
   id |-> NUM7, downloadAddr |-> UNDEF,
   playAddr |-> <<"cdn/play2.mp4">>, cover |-> UNDEF,
   dynamicCover |-> <<"cdn/dyn2.gif">>, playUrl |-> UNDEF]

\* an item with no author
Item3 == [Item1 EXCEPT !.uniqueId = UNDEF, !.authorId = UNDEF]

NoMetaTags ==
  [profileUsername |-> UNDEF, twitterTitle |-> UNDEF, ogDescription |-> UNDEF,
   description |-> UNDEF, ogImage |-> UNDEF]

SomeMetaTags ==
  [profileUsername |-> UNDEF, twitterTitle |-> <<"z","o","e"," ","o","n">>,
   ogDescription |-> UNDEF, description |-> UNDEF, ogImage |-> <<"cdn/og.jpg">>]

BlobAbsent == [state |-> "absent", statusCode |-> 0, item |-> NoItem]

BlobMalformed == [state |-> "malformed", statusCode |-> 0, item |-> NoItem]

Blob(statusCode, item) == [state |-> "ok", statusCode |-> statusCode, item |-> item]

MkPage(sigi, univ, meta) == [sigi |-> sigi, univ |-> univ, meta |-> meta]

HtmlPages ==
  { MkPage(Blob(0, Item1), BlobAbsent, NoMetaTags),
    MkPage(Blob(0, Item2), BlobAbsent, NoMetaTags),
    MkPage(BlobMalformed, Blob(0, Item1), NoMetaTags),
    MkPage(Blob(0, Item3), BlobAbsent, SomeMetaTags),
    MkPage(BlobAbsent, BlobAbsent, SomeMetaTags),
    MkPage(BlobAbsent, BlobAbsent, NoMetaTags) }

ApiData1 ==
  [unique_id |-> Alice, nickname |-> <<"A","l">>, title |-> <<" ","h","i"," ">>,
   cover |-> <<"cdn/cover1.jpg">>, origin_cover |-> <<"cdn/orig1.jpg">>,
   play |-> <<"cdn/play1.mp4">>, wmplay |-> <<"cdn/wm1.mp4">>,
   music |-> <<"cdn/music1.mp3">>, id |-> <<"1","1","1">>]

ApiData2 ==
  [unique_id |-> UNDEF, nickname |-> Bob, title |-> UNDEF,
   cover |-> UNDEF, origin_cover |-> UNDEF,
   play |-> UNDEF, wmplay |-> UNDEF,
   music |-> UNDEF, id |-> NUM7]

ApiBodies ==
  { [code |-> 0, data |-> ApiData1],
    [code |-> 0, data |-> ApiData2],
    [code |-> 0, data |-> [ApiData1 EXCEPT !.id = ZERO]],
    [code |-> 0, data |-> [ApiData2 EXCEPT !.nickname = UNDEF]],
    [code |-> 0, data |-> NoData],
    [code |-> -1, data |-> NoData] }

PageNet(v) ==
  {NetTimeout, NetReset, NetHttp(403, NoBody), NetHttp(404, NoBody)}
    \cup {NetHttp(200, d) : d \in IF v = "html" THEN HtmlPages ELSE ApiBodies}

DirectData ==
  { [hasRequest |-> TRUE, responseUrl |-> <<"cdn/final">>, configUrl |-> <<"cdn/config">>],
    [hasRequest |-> TRUE, responseUrl |-> UNDEF, configUrl |-> <<"cdn/config">>],
    [hasRequest |-> TRUE, responseUrl |-> UNDEF, configUrl |-> UNDEF],
    [hasRequest |-> FALSE, responseUrl |-> UNDEF, configUrl |-> UNDEF] }

DirectNet ==
  {NetTimeout, NetReset, NetHttp(404, NoBody), NetHttp(304, CHOOSE d \in DirectData : TRUE)}
    \cup {NetHttp(200, d) : d \in DirectData}

StreamNet == {NetTimeout, NetReset, NetHttp(403, NoBody), NetHttp(200, [stream |-> TRUE])}

-----------------------------------------------------------------------------
(* The inputs of the functions applied on their own.                       *)

UrlValues == {NULL, UNDEF, EMPTY, <<"cdn/a.mp4">>}

ResolveArgs ==
  { [type |-> ty, metadata |-> [EmptyMetadata EXCEPT !.no_wm = a, !.wm = b, !.audio = c]] :
      ty \in Types \cup {"", "NOWM"},
      a \in UrlValues, b \in UrlValues \cup {<<"cdn/b.mp4">>}, c \in {NULL, <<"cdn/c.mp3">>} }

\* an item with an empty uniqueId and an author id
Item4 == [Item1 EXCEPT !.uniqueId = EMPTY, !.downloadAddr = UNDEF, !.cover = UNDEF]

\* an item with nothing but a user name
Item5 ==
  [uniqueId |-> Bob, authorId |-> UNDEF, desc |-> UNDEF, id |-> UNDEF,
   downloadAddr |-> UNDEF, playAddr |-> UNDEF, cover |-> UNDEF,
   dynamicCover |-> UNDEF, playUrl |-> UNDEF]

ItemB1 ==
  [uniqueId |-> <<"b","e","a">>, authorId |-> <<"u","9">>, desc |-> <<"y","o","\n">>,
   id |-> <<"2","2","2">>, downloadAddr |-> <<"cdn/dlB.mp4">>,
   playAddr |-> <<"cdn/playB.mp4">>, cover |-> <<"cdn/coverB.jpg">>,
   dynamicCover |-> <<"cdn/dynB.gif">>, playUrl |-> <<"cdn/musicB.mp3">>]

\* no uniqueId and no cover, but an author id and a dynamic cover
ItemB2 == [ItemB1 EXCEPT !.uniqueId = UNDEF, !.cover = UNDEF, !.downloadAddr = UNDEF]

FullMetaTags ==
  [profileUsername |-> <<"m","e","g">>, twitterTitle |-> <<"z","o","e"," ","o","n">>,
   ogDescription |-> <<" ","d"," ">>, description |-> <<"x">>,
   ogImage |-> <<"cdn/og.jpg">>]

\* a twitter:title that begins with a space, and a description only
OddMetaTags ==
  [profileUsername |-> UNDEF, twitterTitle |-> <<" ","z","o","e">>,
   ogDescription |-> UNDEF, description |-> <<"x"," ">>, ogImage |-> UNDEF]

ExtractPages ==
  { MkPage(a, b, t) :
      a \in {BlobAbsent, BlobMalformed, Blob(0, NoItem)}
              \cup {Blob(0, i) : i \in {Item1, Item2, Item3, Item4, Item5}},
      b \in {BlobAbsent, BlobMalformed, Blob(0, NoItem), Blob(10204, ItemB1),
             Blob(0, ItemB1), Blob(0, ItemB2)},
      t \in {NoMetaTags, SomeMetaTags, FullMetaTags, OddMetaTags} }

\* the pages served to a single caller of fetchMetadata
FetchPages ==
  { MkPage(a, b, t) :
      a \in {BlobAbsent, BlobMalformed, Blob(0, NoItem), Blob(0, Item1), Blob(0, Item3)},
      b \in {BlobAbsent, Blob(10204, ItemB1), Blob(0, ItemB1)},
      t \in {NoMetaTags, SomeMetaTags, FullMetaTags, OddMetaTags} }

FetchNet(v) ==
  PageNet(v) \cup (IF v = "html" THEN {NetHttp(200, d) : d \in FetchPages} ELSE {})

\* host names, as the caller writes them, for the validators applied on
\* their own: private and reserved IPv4 addresses and localhost
PrivateHosts ==
  { <<"1","2","7",".","0",".","0",".","1">>,
    <<"1","2","7",".","2","5","5",".","2","5","5",".","2","5","5">>,
    <<"1","0",".","0",".","0",".","1">>,
    <<"1","0",".","2","5","5",".","0",".","9">>,
    <<"1","9","2",".","1","6","8",".","1",".","1">>,
    <<"1","7","2",".","1","6",".","0",".","1">>,
    <<"1","7","2",".","2","0",".","1",".","1">>,
    <<"1","7","2",".","3","1",".","2","5","5",".","2","5","5">>,
    <<"1","6","9",".","2","5","4",".","1","6","9",".","2","5","4">>,
    <<"0",".","0",".","0",".","0">>,
    <<"0",".","1",".","2",".","3">>,
    <<"l","o","c","a","l","h","o","s","t">>,
    <<"L","O","C","A","L","H","O","S","T">> }

PublicHosts ==
  { <<"8",".","8",".","8",".","8">>,
    <<"1","7","2",".","1","5",".","0",".","1">>,
    <<"1","7","2",".","3","2",".","0",".","1">>,
    <<"1","7","2",".","1","6","0",".","0",".","1">>,
    <<"1","0","0",".","1",".","1",".","1">>,
    <<"1","1",".","0",".","0",".","1">>,
    <<"1","9","2",".","1","6","9",".","1",".","1">>,
    <<"1","6","9",".","2","5","3",".","1",".","1">>,
    <<"1","2","8",".","0",".","0",".","1">>,
    <<"e","x","a","m","p","l","e",".","c","o","m">>,
    <<"w","w","w",".","t","i","k","t","o","k",".","c","o","m">>,
    <<"c","d","n",".","e","x","a","m","p","l","e",".","o","r","g">> }

\* IPv6 literals, in the bracketed form of a URL's hostname
PrivateHosts6 ==
  { <<"[",":",":","1","]">>,
    <<"[","f","e","8","0",":",":","1","]">>,
    <<"[","f","c","0","0",":",":","1","]">>,
    <<"[","f","d","0","0",":",":","1","]">>,
    <<"[","f","d","1","2",":","3","4","5","6",":",":","1","]">>,
    <<"[","F","E","8","0",":",":","2","]">> }

PublicHosts6 == { <<"[","2","0","0","1",":","d","b","8",":",":","1","]">> }

Protocols == {"http:", "https:", "ftp:", "file:"}

SsrfUrls ==
  {BadUrl} \cup
  { MkUrl(pr, h, <<"/","p">>, <<>>) :
      pr \in Protocols,
      h \in PrivateHosts \cup PublicHosts \cup PrivateHosts6 \cup PublicHosts6 }

\* hosts, paths and query strings for the URL functions applied on their own
ValidatorHosts ==
  { <<"t","i","k","t","o","k",".","c","o","m">>,
    <<"w","w","w",".","t","i","k","t","o","k",".","c","o","m">>,
    <<"m",".","t","i","k","t","o","k",".","c","o","m">>,
    <<"v","m",".","t","i","k","t","o","k",".","c","o","m">>,
    <<"W","W","W",".","T","i","k","T","o","k",".","c","o","m">>,
    <<"f","a","k","e","t","i","k","t","o","k",".","c","o","m">>,
    <<"w","w","w",".","y","o","u","t","u","b","e",".","c","o","m">>,
    <<"t","i","k","t","o","k",".","c","o","m",".","e","v","i","l",".","i","o">>,
    <<"e","x","a","m","p","l","e",".","c","o","m">> }

ValidatorPaths ==
  { <<"/","@","u","s","e","r","/","v","i","d","e","o","/","1","2","3">>,
    <<"/","@","u","s","e","r",".","n","a","m","e","/","v","i","d","e","o","/","1">>,
    <<"/","@","u","-","n","/","v","i","d","e","o","/","9","8">>,
    <<"/","t","/","a","b","c","1","2","3">>,
    <<"/","t","/","a","-","b","/">>,
    <<"/","v","/","1","2","3">>,
    <<"/","v","/","1","2","3",".","h","t","m","l">>,
    <<"/","s","h","a","r","e","/","v","i","d","e","o","/","5","5">>,
    <<"/","@","u","s","e","r">>,
    <<"/">>,
    <<"/","v","i","d","e","o","/","1","2","3">>,
    <<"/","@","u","s","e","r","/","v","i","d","e","o","/">>,
    <<"/","@","u","s","e","r","/","v","i","d","e","o","/","a","b","c">>,
    <<"/","t","/">>,
    <<"/","v","/","a","b","c">>,
    <<"/","s","h","a","r","e","/","v","i","d","e","o","/">>,
    <<"/","x","/","t","/","a","b">>,
    <<"/","@","U","s","e","r","/","V","i","d","e","o","/","1","2">>,
    <<"/","T","/","A","b","9">>,
    <<"/","@","/","v","i","d","e","o","/","1">>,
    <<"/","@","u","s","e","r","/","p","h","o","t","o","/","1">>,
    <<"/","V","/","7","7">>,
    <<"/","S","h","a","r","e","/","V","i","d","e","o","/","5">>,
    <<"/","@","a","/","v","i","d","e","o","/","1","/","t","/","z","z">> }

\* a parameter of one element is one written without '='
ValidatorQueries ==
  { <<>>,
    << <<"lang", "en">> >>,
    << <<"_r", "1">>, <<"lang", "en">>, <<"timestamp", "9">>, <<"_r", "2">> >>,
    << <<"flag">>, <<"checksum", "a">> >>,
    << <<"_R", "1">>, <<"is_copy_url", "1">>, <<"language", "en">> >> }

ValidatorUrls ==
  {BadUrl} \cup
  { MkUrl(pr, h, p, q) :
      pr \in {"https:", "ftp:"}, h \in ValidatorHosts, p \in ValidatorPaths,
      q \in ValidatorQueries }

\* the arguments of generateFilename applied on its own
FilenameArgs ==
  { [metadata |-> [EmptyMetadata EXCEPT !.username = u, !.video_id = i],
     type |-> ty, timestamp |-> ts] :
      u \in {NULL, UNDEF, EMPTY, <<"u","$","e","r","!">>, <<"a",".","b"," ","c">>,
             <<"A","b","_","9","-","z">>, <<"/",".",".","/">>},
      i \in {NULL, UNDEF, EMPTY, <<"1">>, <<"1","2","3">>, NUM7},
      ty \in Types \cup {""},
      ts \in {<<"0">>, <<"1","7","3">>} }

\* API_KEYS: unset, '', ' ', ',', 'k1', 'k1, k2', ' k2 ,'
ApiKeyConfigs ==
  { [set |-> FALSE, parts |-> <<>>],
    [set |-> TRUE, parts |-> <<EMPTY>>],
    [set |-> TRUE, parts |-> << <<" ">> >>],
    [set |-> TRUE, parts |-> <<EMPTY, EMPTY>>],
    [set |-> TRUE, parts |-> << <<"k","1">> >>],
    [set |-> TRUE, parts |-> << <<"k","1">>, <<" ","k","2">> >>],
    [set |-> TRUE, parts |-> << <<" ","k","2"," ">>, EMPTY >>] }

\* the X-API-Key header or the apikey parameter of a request
PresentedKeys == {UNDEF, EMPTY, <<"k","1">>, <<"k","2">>, <<"k","3">>, <<" ","k","1">>}

ApiPaths == {"/api/fetch", "/api/download", "/api/v1/fetch", "/api/v1/download"}

PublicPaths == {"/", "/health"}

\* an item whose id and addresses an upstream page chose freely
ItemHostile ==
  [Item1 EXCEPT !.id = <<"9","\"","/","\n">>,
                !.downloadAddr = <<"http://169.254.169.254/latest/meta-data">>,
                !.playUrl = <<"http://localhost/admin">>]

ApiDataHostile ==
  [ApiData1 EXCEPT !.id = <<"9","\"","/","\n">>,
                   !.play = <<"http://169.254.169.254/latest/meta-data">>,
                   !.wmplay = <<"http://10.0.0.5/x">>,
                   !.music = <<"http://localhost/admin">>]

\* what the network answers to the page or API fetch of a download
DownloadNet(v) ==
  {NetTimeout}
    \cup {NetHttp(200, d) :
            d \in IF v = "html"
                    THEN {MkPage(Blob(0, Item1), BlobAbsent, NoMetaTags),
                          MkPage(Blob(0, ItemHostile), BlobAbsent, NoMetaTags)}
                    ELSE {[code |-> 0, data |-> ApiData1],
                          [code |-> 0, data |-> ApiDataHostile]}}

\* new URL(m) of a media address
MediaUrl(m) ==
  CASE m = <<"http://169.254.169.254/latest/meta-data">> ->
         MkUrl("http:", <<"1","6","9",".","2","5","4",".","1","6","9",".","2","5","4">>,
               <<"/","l","a","t","e","s","t","/","m","e","t","a","-","d","a","t","a">>, <<>>)
    [] m = <<"http://localhost/admin">> ->
         MkUrl("http:", <<"l","o","c","a","l","h","o","s","t">>,
               <<"/","a","d","m","i","n">>, <<>>)
    [] m = <<"http://10.0.0.5/x">> ->
         MkUrl("http:", <<"1","0",".","0",".","0",".","5">>, <<"/","x">>, <<>>)
    [] OTHER ->
         MkUrl("https:", <<"c","d","n",".","e","x","a","m","p","l","e">>, <<"/","m">>, <<>>)

-----------------------------------------------------------------------------
(* The state of one request: a direct call of fetchMetadata ("call"), or   *)
(* a request to the fetch or the download route.                           *)

Reqs == {1, 2}

NoMeta == [none |-> TRUE]

NoNet == [kind |-> "none", status |-> 0, data |-> NoBody]

\* seq (the number of the request) and directNet (what the network answered
\* to the redirect-resolution GET) are history, read by no handler
IdleReq ==
  [pc |-> "idle", seq |-> 0, directNet |-> NoNet,
   kind |-> "call", url |-> BadUrl, type |-> "none",
   key |-> <<>>, meta |-> NoMeta, err |-> <<>>, cacheOps |-> 0, out |-> <<>>,
   status |-> 0, headersSent |-> FALSE, res |-> "open", body |-> NoBody,
   contentType |-> "", filename |-> <<>>, downloadUrl |-> NULL, directUrl |-> NULL,
   upstream |-> "none", clientClosed |-> FALSE, closeListener |-> FALSE]

\* an outbound request: the page or API fetch of a URL, or a GET of a media address
OutPage(v, u) == [op |-> v, url |-> u, media |-> NULL]

OutMedia(op, m) == [op |-> op, url |-> BadUrl, media |-> m]

\* res.status(code).json(...)
Respond(rq, code, body) ==
  [rq EXCEPT !.pc = "done", !.status = code, !.headersSent = TRUE, !.body = body,
             !.directNet = NoNet,
             !.res = IF @ = "open" THEN "ended" ELSE @]

\* asyncHandler passes what the handler throws to errorHandler
Unhandled(rq, msg) == Respond([rq EXCEPT !.err = msg], errorHandler(msg), NoBody)

\* the catch block of the fetch route
fetchCatch(rq, msg) ==
  IF includes(msg, "Invalid or unsupported TikTok URL")
    THEN Respond([rq EXCEPT !.err = msg], 400, NoBody)
    ELSE Unhandled(rq, msg)

\* the catch block of the download route
downloadCatch(rq, msg) ==
  IF rq.headersSent
    THEN [rq EXCEPT !.pc = "done", !.err = msg, !.res = "destroyed", !.directNet = NoNet]
  ELSE IF includes(msg, "Invalid or unsupported TikTok URL")
    THEN Respond([rq EXCEPT !.err = msg], 400, NoBody)
  ELSE IF includes(msg, "Invalid download type")
    THEN Respond([rq EXCEPT !.err = msg], 400, NoBody)
  ELSE Unhandled(rq, msg)

\* the fetch route after fetchMetadata returned
fetchRespond(rq, metadata) ==
  IF ~JsTruthy(metadata.username)
    THEN fetchCatch(rq, <<"Failed to extract video metadata">>)
    ELSE Respond([rq EXCEPT !.meta = metadata], 200,
                 [username |-> JsOr(metadata.username, EMPTY),
                  caption |-> JsOr(metadata.caption, EMPTY),
                  thumbnail |-> JsOr(metadata.thumbnail, EMPTY),
                  no_wm |-> JsOr(metadata.no_wm, EMPTY),
                  wm |-> JsOr(JsOr(metadata.wm, metadata.no_wm), EMPTY),
                  audio |-> JsOr(metadata.audio, EMPTY)])

\* a download route without the check of the resolved URL
downloadResolve_NoCheck(rq, metadata) ==
  LET got == resolveDownloadUrl(rq.type, metadata)
      rq1 == [rq EXCEPT !.meta = metadata]
  IN IF got.threw THEN downloadCatch(rq1, got.msg)
     ELSE [rq1 EXCEPT !.pc = "direct", !.downloadUrl = got.value,
                      !.out = Append(@, OutMedia("direct", got.value))]

\* the download route after fetchMetadata returned, up to the next await
downloadResolve(rq, metadata) ==
  LET got == resolveDownloadUrl(rq.type, metadata)
      rq1 == [rq EXCEPT !.meta = metadata]
  IN IF got.threw THEN downloadCatch(rq1, got.msg)
     ELSE IF ~JsTruthy(got.value) THEN Respond(rq1, 404, NoBody)
     ELSE [rq1 EXCEPT !.pc = "direct", !.downloadUrl = got.value,
                      !.out = Append(@, OutMedia("direct", got.value))]

\* fetchMetadata returned metadata to its caller
OnMetadata(rq, metadata) ==
  CASE rq.kind = "call" -> [rq EXCEPT !.pc = "done", !.meta = metadata]
    [] rq.kind = "fetch" -> fetchRespond(rq, metadata)
    [] OTHER -> downloadResolve(rq, metadata)

\* fetchMetadata threw to its caller
OnError(rq, msg) ==
  CASE rq.kind = "call" -> [rq EXCEPT !.pc = "done", !.err = msg]
    [] rq.kind = "fetch" -> fetchCatch(rq, msg)
    [] OTHER -> downloadCatch(rq, msg)

\* the catch block of fetchMetadata
WrapError(v, msg) ==
  IF v = "api" /\ (includes(msg, "Invalid or unsupported TikTok URL")
                     \/ includes(msg, "URL not allowed"))
    THEN msg
    ELSE <<"Failed to fetch TikTok metadata">> \o msg

\* a fetchMetadata without the SSRF check
fetchMetadataStart_NoSsrfCheck(v, rq, c, t) ==
  IF ~isValidTikTokURL(rq.url)
    THEN [rq |-> OnError(rq, WrapError(v, <<"Invalid or unsupported TikTok URL">>)),
          cache |-> c]
  ELSE IF sanitizeURL(rq.url).threw
    THEN [rq |-> OnError(rq, WrapError(v, sanitizeURL(rq.url).msg)), cache |-> c]
  ELSE LET sanitizedURL == sanitizeURL(rq.url).value
           cacheKey == getCacheKey(sanitizedURL)
           cached == CacheGet(c, cacheKey, t)
           rq1 == [rq EXCEPT !.key = cacheKey, !.cacheOps = @ + 1]
       IN IF cached # Miss
            THEN [rq |-> OnMetadata(rq1, cached), cache |-> c]
            ELSE [rq |-> [rq1 EXCEPT !.pc = "page",
                                     !.out = Append(@, OutPage(v, sanitizedURL))],
                  cache |-> CacheAfterGet(c, cacheKey, t)]

\* fetchMetadata up to its await: [rq, cache] afterwards
fetchMetadataStart(v, rq, c, t) ==
  IF ~isValidTikTokURL(rq.url)
    THEN [rq |-> OnError(rq, WrapError(v, <<"Invalid or unsupported TikTok URL">>)),
          cache |-> c]
  ELSE IF ~isSSRFSafe(rq.url)
    THEN [rq |-> OnError(rq, WrapError(v, <<"URL not allowed">>)), cache |-> c]
  ELSE IF sanitizeURL(rq.url).threw
    THEN [rq |-> OnError(rq, WrapError(v, sanitizeURL(rq.url).msg)), cache |-> c]
  ELSE LET sanitizedURL == sanitizeURL(rq.url).value
           cacheKey == getCacheKey(sanitizedURL)
           cached == CacheGet(c, cacheKey, t)
           rq1 == [rq EXCEPT !.key = cacheKey, !.cacheOps = @ + 1]
       IN IF cached # Miss
            THEN [rq |-> OnMetadata(rq1, cached), cache |-> c]
            ELSE [rq |-> [rq1 EXCEPT !.pc = "page",
                                     !.out = Append(@, OutPage(v, sanitizedURL))],
                  cache |-> CacheAfterGet(c, cacheKey, t)]

\* fetchMetadata after its await: what it returns or throws
fetchMetadataResult(v, net) ==
  LET got == httpClientGet(net, StatusBelowGet)
  IN IF got.threw THEN Throw(WrapError(v, got.msg))
     ELSE IF v = "html"
       THEN LET metadata == extractMetadataFromHTML(got.value)
            IN IF metadataRejected(metadata)
                 THEN Throw(WrapError(v, <<"Failed to extract video metadata">>))
                 ELSE Return(metadata)
     ELSE IF apiBodyRejected(got.value)
       THEN Throw(WrapError(v, <<"Failed to extract video metadata">>))
     ELSE LET metadata == apiMetadata(got.value.data)
          IN IF metadataRejected(metadata)
               THEN Throw(WrapError(v, <<"Failed to extract video metadata">>))
               ELSE Return(metadata)

\* the route's express-validator chain: TRUE when the request is refused
routeRefuses(rq) ==
  \/ ~isValidTikTokURL(rq.url)
  \/ ~isSSRFSafe(rq.url)
  \/ rq.kind = "download" /\ ~isValidDownloadType(rq.type)

\* a route from its validators to the handler's first await: [rq, cache]
routeStart(v, rq, c, t) ==
  IF routeRefuses(rq)
    THEN [rq |-> Respond(rq, 400, NoBody), cache |-> c]
    ELSE fetchMetadataStart(v, rq, c, t)

\* an apiKeyAuth that lets any non-empty key pass (&& for ||)
apiKeyAuth_AnyKey(apiKeys, header, queryKey) ==
  LET validKeys == {trim(apiKeys.parts[i]) : i \in 1..Len(apiKeys.parts)} \ {EMPTY}
      key == JsOr(header, queryKey)
  IN IF ~apiKeys.set \/ apiKeys.parts = <<EMPTY>> THEN "next"
     ELSE IF validKeys = {} THEN "next"
     ELSE IF ~JsTruthy(key) /\ key \notin validKeys THEN "401"
     ELSE "next"

\* apiKeyAuth: apiKeys is process.env.API_KEYS, unset or the parts between
\* its commas; "next" or "401"
apiKeyAuth(apiKeys, header, queryKey) ==
  LET validKeys == {trim(apiKeys.parts[i]) : i \in 1..Len(apiKeys.parts)} \ {EMPTY}
      key == JsOr(header, queryKey)
  IN IF ~apiKeys.set \/ apiKeys.parts = <<EMPTY>> THEN "next"
     ELSE IF validKeys = {} THEN "next"
     ELSE IF ~JsTruthy(key) \/ key \notin validKeys THEN "401"
     ELSE "next"

-----------------------------------------------------------------------------
(* The actions.                                                            *)

\* the host and path of a URL, as the caller sees them
HostPath(u) == <<toLowerCase(u.hostname), u.pathname>>

Init ==
  /\ variant \in {"html", "api"}
  /\ now = 0
  /\ cache = <<>>
  /\ req = [r \in Reqs |-> IdleReq]
  /\ calls = 0
  /\ stored = <<>>
  /\ arg = NoValue
  /\ ret = NoValue

\* a caller calls fetchMetadata(u): the call up to its first await
InvokeCall(r) ==
  /\ req[r].pc \in {"idle", "done"}
  /\ calls < MaxCalls
  /\ \E u \in Urls :
       LET rq == [IdleReq EXCEPT !.pc = "start", !.seq = calls + 1,
                                 !.kind = "call", !.url = u]
           nxt == fetchMetadataStart(variant, rq, cache, now)
       IN /\ req' = [req EXCEPT ![r] = nxt.rq]
          /\ cache' = nxt.cache
  /\ calls' = calls + 1
  /\ UNCHANGED <<arg, ret, variant, now, stored>>

\* a request of the given kind arrives at its route: the route's validators,
\* then the handler up to its first await
InvokeRouteOf(r, kind, u, ty) ==
  /\ req[r].pc \in {"idle", "done"}
  /\ calls < MaxCalls
  /\ LET rq == [IdleReq EXCEPT !.pc = "start", !.seq = calls + 1,
                               !.kind = kind, !.url = u,
                               !.type = IF kind = "download" THEN ty ELSE "none"]
         nxt == routeStart(variant, rq, cache, now)
     IN /\ req' = [req EXCEPT ![r] = nxt.rq]
        /\ cache' = nxt.cache
  /\ calls' = calls + 1
  /\ UNCHANGED <<arg, ret, variant, now, stored>>

\* a request arrives at the fetch or the download route
InvokeRoute(r) ==
  \E kind \in {"fetch", "download"}, u \in RouteUrls, ty \in Types :
    /\ kind = "fetch" => ty = "nowm"
    /\ InvokeRouteOf(r, kind, u, ty)

\* the page (or API) fetch completes with the answer net: the rest of
\* fetchMetadata, then its caller
PageResponseWith(r, net) ==
  /\ req[r].pc = "page"
  /\ LET got == fetchMetadataResult(variant, net)
         rq == req[r]
     IN IF got.threw
          THEN /\ req' = [req EXCEPT ![r] = OnError(rq, got.msg)]
               /\ UNCHANGED <<cache, stored>>
          ELSE /\ cache' = CacheSet(cache, rq.key, got.value, now)
               /\ req' = [req EXCEPT ![r] =
                            OnMetadata([rq EXCEPT !.cacheOps = @ + 1], got.value)]
               /\ stored' = [hp \in DOMAIN stored \cup {HostPath(rq.url)} |->
                               IF hp = HostPath(rq.url)
                                 THEN [at |-> now, rec |-> got.value]
                                 ELSE stored[hp]]
  /\ UNCHANGED <<ret, variant, now, calls>>

PageResponse(r) ==
  /\ \E net \in PageNet(variant) : PageResponseWith(r, net)
  /\ arg' = arg

\* the redirect-resolution GET completes: set the headers, open the stream
DirectResponse(r) ==
  /\ req[r].pc = "direct"
  /\ \E net \in DirectNet :
       LET directUrl == getDirectDownloadURL(req[r].downloadUrl, net)
       IN req' = [req EXCEPT ![r] =
                    [@ EXCEPT !.pc = "stream", !.directUrl = directUrl, !.directNet = net,
                              !.filename = generateFilename(req[r].meta, req[r].type,
                                                            DateNow),
                              !.contentType = IF req[r].type = "audio"
                                                THEN "audio/mpeg" ELSE "video/mp4",
                              !.out = Append(@, OutMedia("stream", directUrl))]]
  /\ UNCHANGED <<arg, ret, variant, now, cache, calls, stored>>

\* httpClient.stream completes: on success register the 'error' listener,
\* pipe, register the 'close' listener
StreamResponse(r) ==
  /\ req[r].pc = "stream"
  /\ \E net \in StreamNet :
       LET got == httpClientStream(net)
       IN req' = [req EXCEPT ![r] =
                    IF got.threw THEN downloadCatch(req[r], got.msg)
                    ELSE [@ EXCEPT !.pc = "relay", !.upstream = "open",
                                   !.closeListener = TRUE, !.directNet = NoNet]]
  /\ UNCHANGED <<arg, ret, variant, now, cache, calls, stored>>

\* pipe: a chunk of the upstream stream is written to the response
UpstreamData(r) ==
  /\ req[r].pc = "relay" /\ req[r].upstream = "open" /\ req[r].res = "open"
  /\ ~req[r].headersSent
  /\ req' = [req EXCEPT ![r] = [@ EXCEPT !.headersSent = TRUE, !.status = 200]]
  /\ UNCHANGED <<arg, ret, variant, now, cache, calls, stored>>

\* pipe: the upstream stream ends, and pipe ends the response
UpstreamEnd(r) ==
  /\ req[r].pc = "relay" /\ req[r].upstream = "open" /\ req[r].res = "open"
  /\ req' = [req EXCEPT ![r] = [@ EXCEPT !.pc = "done", !.upstream = "ended",
                                         !.res = "ended", !.headersSent = TRUE,
                                         !.status = IF @ = 0 THEN 200 ELSE @]]
  /\ UNCHANGED <<arg, ret, variant, now, cache, calls, stored>>

\* an 'error' listener that answers whether or not the headers were sent
streamErrorListener_NoGuard(rq) ==
  Respond([rq EXCEPT !.upstream = "errored"], 500, NoBody)

\* response.data.on('error', ...)
streamErrorListener(rq) ==
  IF ~rq.headersSent
    THEN Respond([rq EXCEPT !.upstream = "errored"], 500, NoBody)
    ELSE [rq EXCEPT !.upstream = "errored",
                    !.pc = IF rq.res = "open" THEN "relay" ELSE "done"]

UpstreamError(r) ==
  /\ req[r].pc = "relay" /\ req[r].upstream = "open"
  /\ req' = [req EXCEPT ![r] = streamErrorListener(@)]
  /\ UNCHANGED <<arg, ret, variant, now, cache, calls, stored>>

\* req.on('close', ...), when it has been registered
closeListener(rq) ==
  IF rq.closeListener /\ rq.upstream = "open"
    THEN [rq EXCEPT !.upstream = "destroyed", !.pc = "done"]
    ELSE rq

\* the client disconnects before the response is finished
ClientClose(r) ==
  /\ req[r].kind # "call"
  /\ req[r].pc \in {"page", "direct", "stream", "relay"}
  /\ ~req[r].clientClosed
  /\ LET rq == closeListener([req[r] EXCEPT !.clientClosed = TRUE, !.res = "destroyed"])
     IN req' = [req EXCEPT ![r] =
                  IF rq.pc = "relay" /\ rq.upstream # "open"
                    THEN [rq EXCEPT !.pc = "done"] ELSE rq]
  /\ UNCHANGED <<arg, ret, variant, now, cache, calls, stored>>

Tick ==
  /\ now + Step <= MaxTime
  /\ now' = now + Step
  /\ UNCHANGED <<arg, ret, variant, cache, req, calls, stored>>

\* node-cache's periodic check deletes the expired entries
Sweep ==
  /\ \E k \in DOMAIN cache : ~Live(cache, k, now)
  /\ cache' = CacheDrop(cache, {k \in DOMAIN cache : ~Live(cache, k, now)})
  /\ UNCHANGED <<arg, ret, variant, now, req, calls, stored>>

\* concurrent callers of fetchMetadata, the cache and the clock
Next ==
  \/ \E r \in Reqs : InvokeCall(r)
  \/ \E r \in Reqs : PageResponse(r)
  \/ Tick
  \/ Sweep

Spec == Init /\ [][Next]_vars

\* one client of the fetch and download routes
NextRoutes ==
  \/ InvokeRoute(1)
  \/ PageResponse(1)
  \/ DirectResponse(1)
  \/ StreamResponse(1)
  \/ UpstreamData(1)
  \/ UpstreamEnd(1)
  \/ UpstreamError(1)
  \/ ClientClose(1)
  \/ Tick
  \/ Sweep

SpecRoutes == Init /\ [][NextRoutes]_vars

\* the rounds in which the single caller starts a request
FetchRounds == {0, 1}

\* the single caller's fetch completes; arg keeps the answer of the network
FetchResponse ==
  /\ \E net \in FetchNet(variant) :
       /\ PageResponseWith(1, net)
       /\ arg' = net

\* one caller at a time, calling fetchMetadata or the fetch route
NextFetch ==
  \/ calls \in FetchRounds /\ InvokeCall(1)
  \/ calls \in FetchRounds /\ \E u \in RouteUrls : InvokeRouteOf(1, "fetch", u, "none")
  \/ FetchResponse
  \/ Tick
  \/ Sweep

SpecFetch == Init /\ [][NextFetch]_vars

\* the single download request of SpecDownload arrives first
DownloadRounds == {0}

DownloadPageResponse ==
  /\ \E net \in DownloadNet(variant) : PageResponseWith(1, net)
  /\ arg' = arg

\* one download request, served by an upstream that chooses the video id
\* and the media addresses
NextDownload ==
  \/ calls \in DownloadRounds /\ \E ty \in Types : InvokeRouteOf(1, "download", UrlA, ty)
  \/ DownloadPageResponse
  \/ DirectResponse(1)
  \/ StreamResponse(1)
  \/ UpstreamData(1)
  \/ UpstreamEnd(1)
  \/ UpstreamError(1)
  \/ ClientClose(1)

SpecDownload == Init /\ [][NextDownload]_vars

\* the application with its API_KEYS setting in arg, and one request; ret
\* keeps the path and the keys the request presented
InitApp ==
  /\ variant \in {"html", "api"}
  /\ now = 0 /\ cache = <<>> /\ req = [r \in Reqs |-> IdleReq]
  /\ calls = 0 /\ stored = <<>> /\ ret = NoValue
  /\ arg \in ApiKeyConfigs

\* a request arrives at the application: / and /health answer at once, the
\* API paths pass apiKeyAuth and then their route
AppRequest(r) ==
  /\ req[r].pc = "idle" /\ calls = 0
  /\ \E path \in ApiPaths \cup PublicPaths, header \in PresentedKeys,
        queryKey \in PresentedKeys, ty \in {"nowm", "gif"} :
       LET kind == IF path \in PublicPaths THEN "public"
                   ELSE IF path \in {"/api/fetch", "/api/v1/fetch"} THEN "fetch"
                   ELSE "download"
           rq == [IdleReq EXCEPT !.pc = "start", !.seq = 1, !.kind = kind, !.url = UrlA,
                                 !.type = IF kind = "download" THEN ty ELSE "none"]
           nxt == IF kind = "public" THEN [rq |-> Respond(rq, 200, NoBody), cache |-> cache]
                  ELSE IF apiKeyAuth(arg, header, queryKey) = "401"
                    THEN [rq |-> Respond(rq, 401, NoBody), cache |-> cache]
                  ELSE routeStart(variant, rq, cache, now)
       IN /\ req' = [req EXCEPT ![r] = nxt.rq]
          /\ cache' = nxt.cache
          /\ ret' = [path |-> path, header |-> header, queryKey |-> queryKey]
  /\ calls' = calls + 1
  /\ UNCHANGED <<arg, variant, now, stored>>

NextApp ==
  \/ AppRequest(1)
  \/ PageResponse(1)
  \/ DirectResponse(1)
  \/ StreamResponse(1)
  \/ UpstreamEnd(1)

SpecApp == InitApp /\ [][NextApp]_vars

-----------------------------------------------------------------------------
(* Properties of fetchMetadata and the cache (specification Spec).         *)

\* C1: a call of fetchMetadata whose URL isValidTikTokURL rejects fails with
\* the 'Invalid or unsupported TikTok URL' error, and one whose URL passes
\* that check but isSSRFSafe rejects fails with the 'URL not allowed' error;
\* either way the call has issued no outbound request and has neither read
\* nor written the cache.
C1_RejectedBeforeAnyAccess ==
  \A r \in Reqs :
    (req[r].kind = "call" /\ req[r].pc # "idle") =>
      /\ ~isValidTikTokURL(req[r].url) =>
           /\ req[r].pc = "done"
           /\ includes(req[r].err, "Invalid or unsupported TikTok URL")
           /\ ~includes(req[r].err, "URL not allowed")
           /\ req[r].out = <<>> /\ req[r].cacheOps = 0 /\ req[r].meta = NoMeta
      /\ (isValidTikTokURL(req[r].url) /\ ~isSSRFSafe(req[r].url)) =>
           /\ req[r].pc = "done"
           /\ includes(req[r].err, "URL not allowed")
           /\ ~includes(req[r].err, "Invalid or unsupported TikTok URL")
           /\ req[r].out = <<>> /\ req[r].cacheOps = 0 /\ req[r].meta = NoMeta

\* a call with a URL of an accepted host and path shape but the ftp scheme
\* has been refused by the SSRF check
C1_Witness ==
  \E r \in Reqs :
    /\ req[r].kind = "call" /\ req[r].pc = "done"
    /\ isValidTikTokURL(req[r].url) /\ req[r].url.protocol = "ftp:"
    /\ includes(req[r].err, "URL not allowed")

\* the TTL counted from the last successful store for the host and path has
\* not run out (node-cache keeps an entry while now <= stored time + TTL)
WithinTTL(hp) == hp \in DOMAIN stored /\ now <= stored[hp].at + stdTTL

\* request r arrives in this step
Arrives(r) == calls' = calls + 1 /\ req'[r].seq = calls'

\* C2: when fetchMetadata is called with a URL whose host and path were
\* fetched and stored before (whatever the query strings of the two calls),
\* then within the TTL the call returns the stored record at once and issues
\* no upstream fetch, and after the TTL it issues an upstream fetch.
C2_CacheHitWithinTTL ==
  [][\A r \in Reqs :
       (Arrives(r) /\ req'[r].kind = "call"
          /\ isValidTikTokURL(req'[r].url) /\ isSSRFSafe(req'[r].url)
          /\ HostPath(req'[r].url) \in DOMAIN stored) =>
         IF WithinTTL(HostPath(req'[r].url))
           THEN /\ req'[r].pc = "done"
                /\ req'[r].meta = stored[HostPath(req'[r].url)].rec
                /\ req'[r].out = <<>>
           ELSE /\ req'[r].pc = "page"
                /\ Len(req'[r].out) = 1]_vars

\* the second call, with tracking parameters the first did not have, was
\* served from the cache some time after the first stored the record
C2_Witness ==
  \E r \in Reqs :
    /\ req[r].kind = "call" /\ req[r].seq = 2 /\ req[r].pc = "done"
    /\ req[r].url = UrlATracked
    /\ HostPath(UrlA) \in DOMAIN stored /\ stored[HostPath(UrlA)].at < now
    /\ req[r].meta = stored[HostPath(UrlA)].rec /\ req[r].out = <<>>

NonEmpty(v) == v \notin {NULL, UNDEF, EMPTY}

Usable(m) == NonEmpty(m.username) /\ NonEmpty(m.video_id)

\* C3: every record fetchMetadata has returned, freshly extracted or from
\* the cache, and every record in the cache has a non-null, non-empty
\* username and a non-null, non-empty video_id.
C3_RecordsUsable ==
  /\ \A r \in Reqs : req[r].meta # NoMeta => Usable(req[r].meta)
  /\ \A k \in DOMAIN cache : Usable(cache[k].v)

\* a record was returned from the cache
C3_Witness ==
  \E r \in Reqs :
    /\ req[r].pc = "done" /\ req[r].meta # NoMeta /\ req[r].out = <<>>
    /\ req[r].key \in DOMAIN cache /\ cache[req[r].key].v = req[r].meta

\* both calls missed the cache and fetched, for the same key, and returned
BothFetched(r1, r2) ==
  /\ r1 # r2
  /\ req[r1].pc = "done" /\ req[r2].pc = "done"
  /\ req[r1].meta # NoMeta /\ req[r2].meta # NoMeta
  /\ req[r1].out # <<>> /\ req[r2].out # <<>>
  /\ req[r1].key = req[r2].key

\* C4: when two calls for the same key have both missed the cache, both
\* fetched upstream and both returned, both records are valid, and the cache
\* holds for that key the whole record of the call that finished last (and
\* no entry under another key for that host and path).
C4_StampedeLastWriterWins ==
  \A r1 \in Reqs : \A r2 \in Reqs :
    BothFetched(r1, r2) =>
      /\ Usable(req[r1].meta) /\ Usable(req[r2].meta)
      /\ HostPath(req[r1].url) = HostPath(req[r2].url)
      /\ \A k \in DOMAIN cache :
           k = HostPath(req[r1].url)[1] \o HostPath(req[r1].url)[2] =>
             cache[k].v = stored[HostPath(req[r1].url)].rec
      /\ Cardinality(DOMAIN cache) <= Cardinality(DOMAIN stored)

\* two concurrent calls both fetched and returned different records; the
\* cache holds the record of the second to finish
C4_Witness ==
  \E r1 \in Reqs : \E r2 \in Reqs :
    /\ BothFetched(r1, r2) /\ now = 0
    /\ req[r1].meta # req[r2].meta
    /\ req[r1].key \in DOMAIN cache
    /\ cache[req[r1].key].v = req[r2].meta
    /\ stored[HostPath(req[r1].url)].rec = req[r2].meta

-----------------------------------------------------------------------------
(* Properties of the download route (specification SpecRoutes).            *)

\* C5: no upstream stream stays open for a client that has disconnected,
\* at whatever point of the download request the disconnect occurred: the
\* 'close' listener, which runs in the step of the disconnect, or the
\* handler that opens the stream afterwards, has destroyed it.
C5_NoStreamForGoneClient ==
  \A r \in Reqs :
    (req[r].kind = "download" /\ req[r].clientClosed) => req[r].upstream # "open"

\* C6: once the upstream stream has failed after the response headers were
\* sent, the status is still the one sent and the response is no longer
\* open (it has been ended or destroyed).
C6_ErrorAfterHeadersEndsResponse ==
  \A r \in Reqs :
    (req[r].kind = "download" /\ req[r].upstream = "errored" /\ req[r].err = <<>>
       /\ req[r].headersSent /\ req[r].status = 200) =>
      req[r].res # "open"

\* what getDirectDownloadURL is to return for the answer net to its GET
DirectExpected(url, net) ==
  IF net.kind = "http" /\ net.status >= 200 /\ net.status < 400 /\ net.data.hasRequest
    THEN IF NonEmpty(net.data.responseUrl) THEN net.data.responseUrl
         ELSE IF NonEmpty(net.data.configUrl) THEN net.data.configUrl
         ELSE url
    ELSE url

\* C7: whatever the redirect-resolution GET answered, the download request
\* went on to open the stream (no error was raised), for the final URL the
\* transport reported, else the request's configured URL, else the input
\* URL, and for the input URL when the GET failed.
C7_DirectUrlBestEffort ==
  \A r \in Reqs :
    req[r].directNet # NoNet =>
      /\ req[r].pc = "stream" /\ req[r].err = <<>> /\ req[r].status = 0
      /\ req[r].directUrl = DirectExpected(req[r].downloadUrl, req[r].directNet)
      /\ req[r].out[Len(req[r].out)] = OutMedia("stream", req[r].directUrl)

\* the GET timed out and the stream is being opened for the input URL
C7_Witness ==
  \E r \in Reqs :
    /\ req[r].pc = "stream" /\ req[r].directNet = NetTimeout
    /\ req[r].directUrl = req[r].downloadUrl
    /\ req[r].out[Len(req[r].out)] = OutMedia("stream", req[r].downloadUrl)

\* the field of the record that a download type stands for
VariantUrl(type, m) ==
  CASE type = "nowm" -> m.no_wm
    [] type = "audio" -> m.audio
    [] type = "wm" -> IF NonEmpty(m.wm) THEN m.wm ELSE m.no_wm

\* C8: a download request of a recognized type for which the metadata holds
\* no URL is answered 404, and has issued neither the redirect-resolution
\* request nor the streaming request.
C8_MissingVariantIs404 ==
  \A r \in Reqs :
    (req[r].kind = "download" /\ isValidDownloadType(req[r].type)
       /\ req[r].meta # NoMeta /\ ~NonEmpty(VariantUrl(req[r].type, req[r].meta))) =>
      /\ req[r].pc = "done" /\ req[r].status = 404
      /\ \A i \in 1..Len(req[r].out) : req[r].out[i].op \notin {"direct", "stream"}

\* an audio download of a video that has a video address but no audio
C8_Witness ==
  \E r \in Reqs :
    /\ req[r].kind = "download" /\ req[r].type = "audio" /\ req[r].status = 404
    /\ req[r].meta # NoMeta /\ NonEmpty(req[r].meta.no_wm) /\ ~NonEmpty(req[r].meta.audio)

-----------------------------------------------------------------------------
(* resolveDownloadUrl applied on its own (specification SpecResolve).      *)

Quiet == UNCHANGED <<variant, now, cache, req, calls, stored>>

InitQuiet ==
  /\ variant = "html" /\ now = 0 /\ cache = <<>>
  /\ req = [r \in Reqs |-> IdleReq] /\ calls = 0 /\ stored = <<>>
  /\ ret = NoValue

InitResolve == InitQuiet /\ arg \in ResolveArgs

ApplyResolve ==
  /\ ret = NoValue
  /\ ret' = resolveDownloadUrl(arg.type, arg.metadata)
  /\ arg' = arg
  /\ Quiet

SpecResolve == InitResolve /\ [][ApplyResolve]_vars

\* C9: resolveDownloadUrl returns no_wm for 'nowm', audio for 'audio', for
\* 'wm' the wm address when it is non-empty and no_wm otherwise, and for any
\* other type throws 'Invalid download type' and returns nothing.
C9_ResolveDownloadUrl ==
  ret # NoValue =>
    CASE arg.type = "nowm" -> ~ret.threw /\ ret.value = arg.metadata.no_wm
      [] arg.type = "audio" -> ~ret.threw /\ ret.value = arg.metadata.audio
      [] arg.type = "wm" ->
           /\ ~ret.threw
           /\ ret.value = IF NonEmpty(arg.metadata.wm) THEN arg.metadata.wm
                          ELSE arg.metadata.no_wm
      [] OTHER ->
           ret.threw /\ includes(ret.msg, "Invalid download type") /\ ret.value = NoValue

\* 'wm' with a null wm address returned the no_wm address
C9_Witness ==
  /\ ret # NoValue /\ arg.type = "wm" /\ arg.metadata.wm = NULL
  /\ NonEmpty(arg.metadata.no_wm) /\ ret.value = arg.metadata.no_wm

-----------------------------------------------------------------------------
(* extractMetadataFromHTML applied on its own (specification SpecExtract). *)

InitExtract == InitQuiet /\ arg \in ExtractPages

ApplyExtract ==
  /\ ret = NoValue
  /\ ret' = extractMetadataFromHTML(arg)
  /\ arg' = arg
  /\ Quiet

SpecExtract == InitExtract /\ [][ApplyExtract]_vars

\* both embedded-state blobs are present and parse, each with a video item
BothBlobs(page) ==
  /\ page.sigi.state = "ok" /\ page.sigi.item # NoItem
  /\ page.univ.state = "ok" /\ page.univ.item # NoItem

ValueOr(a, b) == IF NonEmpty(a) /\ a # ZERO THEN a ELSE b

\* the record that the SIGI_STATE item maps to
SigiRecord(item) ==
  [username |-> ValueOr(item.uniqueId, item.authorId),
   caption |-> trim(ValueOr(item.desc, EMPTY)),
   thumbnail |-> ValueOr(ValueOr(item.cover, item.dynamicCover), NULL),
   no_wm |-> ValueOr(ValueOr(item.downloadAddr, item.playAddr), NULL),
   wm |-> ValueOr(ValueOr(item.downloadAddr, item.playAddr), NULL),
   audio |-> ValueOr(item.playUrl, NULL),
   video_id |-> item.id]

C21_MalformedFallsThrough ==
  ret # NoValue =>
    /\ (arg.sigi.state = "malformed" /\ arg.univ.state = "ok"
          /\ arg.univ.statusCode = 0 /\ arg.univ.item # NoItem) =>
         ret = SigiRecord(arg.univ.item)
    /\ arg.sigi.state = "malformed" =>
         ret = extractMetadataFromHTML([arg EXCEPT !.sigi = BlobAbsent])
    /\ arg.univ.state = "malformed" =>
         ret = extractMetadataFromHTML([arg EXCEPT !.univ = BlobAbsent])

\* C22: a video item in the universal data blob with statusCode 0 gives the
\* record that the same item gives in SIGI_STATE, with the author.id and
\* dynamicCover fallbacks; with another statusCode strategy 2 fills no field.
C22_Strategy2SameMapping ==
  (ret # NoValue /\ arg.sigi.state = "absent" /\ arg.univ.state = "ok"
     /\ arg.univ.item # NoItem) =>
    IF arg.univ.statusCode = 0
      THEN ret = extractMetadataFromHTML(MkPage(arg.univ, BlobAbsent, arg.meta))
      ELSE ret = extractMetadataFromHTML(MkPage(BlobAbsent, BlobAbsent, arg.meta))

-----------------------------------------------------------------------------
(* fetchMetadata and the page it was served (specification SpecFetch).     *)

\* the single caller's fetch completes in this step with an HTML page
PageServed ==
  /\ req[1].pc = "page" /\ req'[1].pc # "page"
  /\ variant = "html" /\ arg'.kind = "http" /\ arg'.status = 200

\* neither embedded-state strategy finds a video item in the page
NoEmbedded(page) ==
  /\ ~(page.sigi.state = "ok" /\ page.sigi.item # NoItem)
  /\ ~(page.univ.state = "ok" /\ page.univ.statusCode = 0 /\ page.univ.item # NoItem)

\* C11: for a page in which neither embedded-state strategy yields data, the
\* extractor leaves video_id, no_wm, wm and audio null and takes the thumbnail
\* from the meta tags; fetchMetadata on such a page fails with 'Failed to
\* extract video metadata', returns no record and writes nothing to the cache,
\* whether or not the meta tags supply a user name.
C11_MetaTagsOnlyFails ==
  [][(PageServed /\ NoEmbedded(arg'.data)) =>
       LET m == extractMetadataFromHTML(arg'.data)
       IN /\ m.video_id = NULL /\ m.no_wm = NULL /\ m.wm = NULL /\ m.audio = NULL
          /\ m.thumbnail = arg'.data.meta.ogImage
          /\ req'[1].pc = "done"
          /\ includes(req'[1].err, "Failed to extract video metadata")
          /\ req'[1].meta = NoMeta
          /\ cache' = cache /\ stored' = stored]_vars

\* a page with meta tags only, which give a user name, made the call fail
C11_Witness ==
  /\ variant = "html" /\ req[1].pc = "done" /\ arg # NoValue
  /\ arg.kind = "http" /\ arg.status = 200 /\ NoEmbedded(arg.data)
  /\ NonEmpty(extractMetadataFromHTML(arg.data).username)
  /\ includes(req[1].err, "Failed to extract video metadata")
  /\ cache = <<>>

\* C12: every record a successful fetchMetadata call returns has a caption
\* that is a string, possibly empty, without leading or trailing whitespace,
\* and never null or undefined.
C12_CaptionIsTrimmedString ==
  \A r \in Reqs :
    (req[r].kind = "call" /\ req[r].pc = "done" /\ req[r].meta # NoMeta) =>
      /\ req[r].meta.caption \notin {NULL, UNDEF, ZERO, NUM7}
      /\ trim(req[r].meta.caption) = req[r].meta.caption

\* the user name, the video id and the media addresses of record m all come
\* from the video item of this embedded-state blob
FromBlob(blob, m) ==
  /\ blob.state = "ok" /\ blob.statusCode = 0 /\ blob.item # NoItem
  /\ NonEmpty(m.username) /\ m.username \in {blob.item.uniqueId, blob.item.authorId}
  /\ m.video_id = blob.item.id
  /\ m.no_wm \in {blob.item.downloadAddr, blob.item.playAddr, NULL}
  /\ m.wm = m.no_wm
  /\ m.audio \in {blob.item.playUrl, NULL}

\* C28: in every record that a successful fetchMetadata call of the
\* page-scraping variant returns, the user name, the video id and the media
\* addresses were taken from one and the same embedded-state blob.
C28_RecordFromOneBlob ==
  [][(PageServed /\ req[1].kind = "call" /\ req'[1].meta # NoMeta) =>
       \/ FromBlob(arg'.data.sigi, req'[1].meta)
       \/ FromBlob(arg'.data.univ, req'[1].meta)]_vars

\* what a caller can read from the cache at time t
LiveContents(c, t) == [k \in {x \in DOMAIN c : Live(c, x, t)} |-> c[k].v]

\* the single caller's fetchMetadata call fails in this step
CallFails == req'[1] # req[1] /\ req'[1].err # <<>>

\* C13: a fetchMetadata call that fails (invalid URL, blocked URL, upstream
\* failure, extraction failure) changes nothing a caller can read from the
\* cache and stores nothing, neither when it starts nor when it fails; a page
\* with no embedded state and no relevant meta tags makes it fail with 'Failed
\* to extract video metadata', and the fetch route answers 422.
C13_FailuresNeverCached ==
  [][/\ CallFails =>
          /\ LiveContents(cache', now') = LiveContents(cache, now)
          /\ stored' = stored
     /\ (req[1].pc # "page" /\ req'[1].pc = "page") =>
          /\ LiveContents(cache', now') = LiveContents(cache, now)
          /\ stored' = stored
     /\ (PageServed /\ NoEmbedded(arg'.data) /\ arg'.data.meta = NoMetaTags) =>
          /\ includes(req'[1].err, "Failed to extract video metadata")
          /\ req'[1].kind = "fetch" => req'[1].status = 422]_vars

\* the fetch route answered 422 for an empty page while the cache held a
\* record of an earlier call
C13_Witness ==
  /\ req[1].kind = "fetch" /\ req[1].pc = "done" /\ req[1].status = 422
  /\ arg # NoValue /\ arg.kind = "http" /\ arg.status = 200 /\ variant = "html"
  /\ NoEmbedded(arg.data) /\ arg.data.meta = NoMetaTags
  /\ includes(req[1].err, "Failed to extract video metadata")
  /\ DOMAIN LiveContents(cache, now) # {}

-----------------------------------------------------------------------------
(* isSSRFSafe applied on its own (specification SpecSsrf).                 *)

InitSsrf == InitQuiet /\ arg \in SsrfUrls

ApplySsrf ==
  /\ ret = NoValue
  /\ ret' = Return(isSSRFSafe(arg))
  /\ arg' = arg
  /\ Quiet

SpecSsrf == InitSsrf /\ [][ApplySsrf]_vars

DigitSeq == <<"0","1","2","3","4","5","6","7","8","9">>

\* the number a string of digits writes, -1 if it is not one
RECURSIVE NumberOf(_)
NumberOf(t) ==
  IF t = <<>> THEN -1
  ELSE IF t[Len(t)] \notin Range(DigitSeq) THEN -1
  ELSE LET d == (CHOOSE n \in 1..10 : DigitSeq[n] = t[Len(t)]) - 1
           rest == SubSeq(t, 1, Len(t) - 1)
       IN IF rest = <<>> THEN d
          ELSE IF NumberOf(rest) < 0 THEN -1 ELSE 10 * NumberOf(rest) + d

\* the parts of a host name between its dots
RECURSIVE Labels(_)
Labels(h) ==
  IF \A i \in 1..Len(h) : h[i] # "." THEN <<h>>
  ELSE LET i == CHOOSE k \in 1..Len(h) : h[k] = "." /\ \A j \in 1..(k - 1) : h[j] # "."
       IN <<SubSeq(h, 1, i - 1)>> \o Labels(SubSeq(h, i + 1, Len(h)))

\* the four octets of a dotted IPv4 address, <<>> if h is not one
Octets(h) ==
  LET l == Labels(h)
  IN IF Len(l) = 4 /\ \A i \in 1..4 : NumberOf(l[i]) \in 0..255
       THEN [i \in 1..4 |-> NumberOf(l[i])] ELSE <<>>

\* localhost, or an address in 127/8, 10/8, 172.16/12, 192.168/16,
\* 169.254/16, or a host name that begins with '0.'
InPrivateRange(h) ==
  LET o == Octets(h)
  IN \/ toLowerCase(h) = <<"l","o","c","a","l","h","o","s","t">>
     \/ StartsWith(h, <<"0",".">>)
     \/ /\ o # <<>>
        /\ \/ o[1] = 127
           \/ o[1] = 10
           \/ o[1] = 172 /\ o[2] \in 16..31
           \/ o[1] = 192 /\ o[2] = 168
           \/ o[1] = 169 /\ o[2] = 254

\* C14: isSSRFSafe returns false for unparsable input, for every scheme other
\* than http and https on any host, and for localhost and the hosts in
\* 127/8, 10/8, 172.16/12, 192.168/16, 169.254/16 or beginning with '0.';
\* it returns true for http and https on an ordinary public host name.
C14_SsrfIPv4AndSchemes ==
  ret # NoValue =>
    /\ ~arg.ok => ret.value = FALSE
    /\ (arg.ok /\ arg.protocol \notin {"http:", "https:"}) => ret.value = FALSE
    /\ (arg.ok /\ InPrivateRange(arg.hostname)) => ret.value = FALSE
    /\ (arg.ok /\ arg.protocol \in {"http:", "https:"} /\ arg.hostname \in PublicHosts) =>
         /\ ~InPrivateRange(arg.hostname)
         /\ ret.value = TRUE

\* an https URL on 172.31.255.255 was rejected
C14_Witness ==
  /\ ret # NoValue /\ arg.ok /\ arg.protocol = "https:"
  /\ Octets(arg.hostname) = <<172, 31, 255, 255>>
  /\ ret.value = FALSE

\* C15: isSSRFSafe returns false for every parseable URL whose host is an
\* IPv6 loopback (::1), link-local (fe80:) or unique-local (fc00:, fd00:)
\* address, in the bracketed form the parsed URL's hostname has.
C15_SsrfIPv6Blocked ==
  (ret # NoValue /\ arg.ok /\ arg.hostname \in PrivateHosts6) => ret.value = FALSE

-----------------------------------------------------------------------------
(* The URL functions of the validator applied on their own (specification  *)
(* SpecValidator).  ret is [fn, res]: the function applied and its result.  *)

InitValidator == InitQuiet /\ arg \in ValidatorUrls

ApplyIsValid ==
  /\ ret = NoValue
  /\ ret' = [fn |-> "isValidTikTokURL", res |-> Return(isValidTikTokURL(arg))]
  /\ arg' = arg
  /\ Quiet

ApplySanitize ==
  /\ ret = NoValue
  /\ ret' = [fn |-> "sanitizeURL", res |-> sanitizeURL(arg)]
  /\ arg' = arg
  /\ Quiet

\* sanitizeURL applied to its own result; first keeps the first result
ApplySanitizeAgain ==
  /\ ret # NoValue /\ ret.fn = "sanitizeURL" /\ ~ret.res.threw
  /\ ret' = [fn |-> "sanitizeURL twice", first |-> ret.res,
             res |-> sanitizeURL(ret.res.value)]
  /\ arg' = arg
  /\ Quiet

\* isValidTikTokURL and extractVideoId applied to the same URL
ApplyExtractVideoId ==
  /\ ret = NoValue
  /\ ret' = [fn |-> "extractVideoId", valid |-> isValidTikTokURL(arg),
             res |-> Return(extractVideoId(arg))]
  /\ arg' = arg
  /\ Quiet

NextValidator ==
  \/ ApplyIsValid
  \/ ApplyExtractVideoId
  \/ ApplySanitize
  \/ ApplySanitizeAgain

SpecValidator == InitValidator /\ [][NextValidator]_vars

NameChars == WordChars \cup {".", "-"}

AllIn(t, class) == \A i \in 1..Len(t) : t[i] \in class

\* t is lit followed by one or more characters of class
LitThenRun(t, lit, class) ==
  /\ Len(t) > Len(lit)
  /\ SubSeq(t, 1, Len(lit)) = lit
  /\ AllIn(SubSeq(t, Len(lit) + 1, Len(t)), class)

\* /@<name>/video/<digits>
IsStandardShape(t) ==
  \E k \in 1..(Len(t) - 10) :
    /\ LitThenRun(SubSeq(t, 1, 2 + k), <<"/","@">>, NameChars)
    /\ LitThenRun(SubSeq(t, 3 + k, Len(t)), VideoLit, Digits)

\* one of the four shapes: /@<name>/video/<digits>, /t/<token>, /v/<digits>,
\* /share/video/<digits>
IsShape(t) ==
  \/ IsStandardShape(t)
  \/ LitThenRun(t, <<"/","t","/">>, WordChars \cup {"-"})
  \/ LitThenRun(t, <<"/","v","/">>, Digits)
  \/ LitThenRun(t, <<"/","s","h","a","r","e">> \o VideoLit, Digits)

\* the path, letter case aside, has a part of one of the four shapes
HasShape(p) ==
  \E a \in 1..Len(p) : \E b \in a..Len(p) : IsShape(toLowerCase(SubSeq(p, a, b)))

TikTokHosts ==
  { <<"t","i","k","t","o","k",".","c","o","m">>,
    <<"w","w","w",".","t","i","k","t","o","k",".","c","o","m">>,
    <<"m",".","t","i","k","t","o","k",".","c","o","m">>,
    <<"v","m",".","t","i","k","t","o","k",".","c","o","m">> }

Applied(fn) == ret # NoValue /\ ret.fn = fn

\* C16: isValidTikTokURL returns true exactly when the URL parses, its host
\* name (letter case aside) is tiktok.com, www.tiktok.com, m.tiktok.com or
\* vm.tiktok.com, and its path (letter case aside) has a part of one of the
\* four shapes; the query string plays no part, and unparsable input gives
\* false without an error.
C16_ValidExactlyOnHostAndShape ==
  Applied("isValidTikTokURL") =>
    /\ ~ret.res.threw
    /\ ret.res.value = (/\ arg.ok
                        /\ toLowerCase(arg.hostname) \in TikTokHosts
                        /\ HasShape(arg.pathname))
    /\ arg.ok => ret.res.value = isValidTikTokURL([arg EXCEPT !.query = <<>>])

\* a share URL with tracking parameters was accepted
C16_Witness ==
  /\ Applied("isValidTikTokURL") /\ ret.res.value = TRUE
  /\ arg.ok /\ arg.query # <<>>
  /\ arg.pathname = <<"/","s","h","a","r","e","/","v","i","d","e","o","/","5","5">>

\* the values, in order, of the parameters called n in a query string
ValuesOf(query, n) ==
  LET named == SelectSeq(searchParams(query), LAMBDA kv : kv[1] = n)
  IN [i \in 1..Len(named) |-> named[i][2]]

ParamNames(query) == {searchParams(query)[i][1] : i \in 1..Len(query)}

\* C17: sanitizeURL fails with 'Invalid URL format' on unparsable input; on a
\* parseable URL its result has none of the parameters _r, checksum, u_code,
\* preview_pb, language, timestamp, keeps every other parameter with its
\* values, and applying sanitizeURL to the result gives the result again.
C17_SanitizeIdempotent ==
  /\ Applied("sanitizeURL") =>
       IF ~arg.ok
         THEN ret.res.threw /\ includes(ret.res.msg, "Invalid URL format")
         ELSE /\ ~ret.res.threw
              /\ ret.res.value.hostname = toLowerCase(arg.hostname)
              /\ ret.res.value.pathname = arg.pathname
              /\ \A n \in ParamNames(arg.query) \cup ParamNames(ret.res.value.query) :
                   ValuesOf(ret.res.value.query, n) =
                     IF n \in {"_r", "checksum", "u_code", "preview_pb", "language", "timestamp"}
                       THEN <<>> ELSE ValuesOf(arg.query, n)
  /\ Applied("sanitizeURL twice") => ret.res = ret.first

\* a URL with a tracking parameter and one written without '=' was sanitized
\* twice
C17_Witness ==
  /\ Applied("sanitizeURL twice")
  /\ arg.query = << <<"flag">>, <<"checksum", "a">> >>
  /\ ret.res.value.query = << <<"flag", "">> >>

\* C18: for every URL that isValidTikTokURL accepts, extractVideoId returns
\* a non-null, non-empty id, which is a token or a run of digits of the path.
C18_ValidUrlHasVideoId ==
  (Applied("extractVideoId") /\ ret.valid) =>
    /\ NonEmpty(ret.res.value)
    /\ \E a \in 1..Len(arg.pathname) : \E b \in a..Len(arg.pathname) :
         ret.res.value = SubSeq(arg.pathname, a, b)

-----------------------------------------------------------------------------
(* generateFilename applied on its own (specification SpecFilename).       *)

InitFilename == InitQuiet /\ arg \in FilenameArgs

ApplyFilename ==
  /\ ret = NoValue
  /\ ret' = Return(generateFilename(arg.metadata, arg.type, arg.timestamp))
  /\ arg' = arg
  /\ Quiet

SpecFilename == InitFilename /\ [][ApplyFilename]_vars

SafeChars ==
  { "a","b","c","d","e","f","g","h","i","j","k","l","m","n","o","p","q","r","s","t",
    "u","v","w","x","y","z","A","B","C","D","E","F","G","H","I","J","K","L","M","N",
    "O","P","Q","R","S","T","U","V","W","X","Y","Z","0","1","2","3","4","5","6","7",
    "8","9","_","-" }

\* C19: generateFilename returns '<u>_<id>_<type>_<timestamp><ext>': u is the
\* user name ('unknown' when absent) with every character outside
\* [A-Za-z0-9_-] replaced by '_', id the video id ('video' when absent), and
\* ext '.mp3' exactly when the type is 'audio', '.mp4' for every other type.
C19_FilenameFormat ==
  ret # NoValue =>
    LET u == IF NonEmpty(arg.metadata.username) THEN arg.metadata.username
             ELSE <<"u","n","k","n","o","w","n">>
        id == IF arg.metadata.video_id = NUM7 THEN <<"7">>
              ELSE IF NonEmpty(arg.metadata.video_id) THEN arg.metadata.video_id
              ELSE <<"v","i","d","e","o">>
        ext == IF arg.type = "audio" THEN <<".","m","p","3">> ELSE <<".","m","p","4">>
        rest == <<"_">> \o id \o <<"_">> \o TypeChars(arg.type) \o <<"_">>
                  \o arg.timestamp \o ext
        f == ret.value
    IN /\ Len(f) = Len(u) + Len(rest)
       /\ \A i \in 1..Len(u) : f[i] = IF u[i] \in SafeChars THEN u[i] ELSE "_"
       /\ SubSeq(f, Len(u) + 1, Len(f)) = rest

\* the name for user 'u$er!' and type 'audio' has no '$' or '!' and ends in
\* '.mp3'
C19_Witness ==
  /\ ret # NoValue /\ arg.type = "audio"
  /\ arg.metadata.username = <<"u","$","e","r","!">>
  /\ SubSeq(ret.value, 1, 5) = <<"u","_","e","r","_">>
  /\ SubSeq(ret.value, Len(ret.value) - 3, Len(ret.value)) = <<".","m","p","3">>

\* C25: when the upstream fetch inside fetchMetadata fails during a request
\* to the fetch route, the response tells the cause: 504 for a timeout, 403
\* and 404 for those upstream statuses, 503 for a network failure, and never
\* the 422 of a page that was fetched but could not be extracted.
C25_UpstreamFailureStatus ==
  [][(req[1].pc = "page" /\ req'[1].pc # "page" /\ req[1].kind = "fetch"
        /\ (arg'.kind # "http" \/ arg'.status \in {403, 404})) =>
       /\ req'[1].pc = "done"
       /\ req'[1].status = CASE arg'.kind = "timeout" -> 504
                             [] arg'.kind = "reset" -> 503
                             [] OTHER -> arg'.status
       /\ req'[1].status # 422]_vars

-----------------------------------------------------------------------------
(* API-key authentication (specification SpecApp).                         *)

\* the configured keys: the non-blank entries of API_KEYS, without the
\* spaces around them
ConfiguredKeys == {trim(arg.parts[i]) : i \in 1..Len(arg.parts)} \ {<<>>}

-----------------------------------------------------------------------------
(* httpClient.get, httpClient.stream and fetchMetadata applied on their    *)
(* own, with the answer of the transport (specification SpecHttp).  ret is *)
(* [fn, configs, result]: the configs handed to axios, in order, and what  *)
(* the call returned or threw.                                             *)

\* this.apiBase
apiBase ==
  MkUrl("https:", <<"w","w","w",".","t","i","k","w","m",".","c","o","m">>,
        <<"/","a","p","i","/">>, <<>>)

UserAgents == {"Mozilla/5.0 (Windows NT 10.0)", "Mozilla/5.0 (Macintosh)"}

\* ECONNABORTED with a response attached
NetTimeoutHttp == [kind |-> "timeout", status |-> 404, data |-> NoBody]

HttpNet ==
  {NetTimeout, NetTimeoutHttp, NetReset, NetHttp(200, NoBody), NetHttp(304, NoBody),
   NetHttp(403, NoBody), NetHttp(404, NoBody), NetHttp(500, NoBody)}

GetOptions ==
  {NoProps, fetchOptions("html", UrlA), fetchOptions("api", UrlA), directOptions,
   [timeout |-> 5000], [headers |-> ("User-Agent" :> "curl/8")]}

StreamOptions == {NoProps, streamOptions, [headers |-> ("Range" :> "bytes=0-")]}

InitHttp ==
  /\ variant \in {"html", "api"} /\ now = 0 /\ cache = <<>>
  /\ req = [r \in Reqs |-> IdleReq] /\ calls = 0 /\ stored = <<>>
  /\ ret = NoValue
  /\ \/ arg \in [fn : {"get"}, url : {UrlA, UrlB}, options : GetOptions, net : HttpNet]
     \/ arg \in [fn : {"stream"}, url : {UrlA, UrlB}, options : StreamOptions, net : HttpNet]
     \/ arg \in [fn : {"fetchMetadata"}, url : {UrlA, UrlYoutube}, options : {NoProps},
                 net : PageNet(variant) \cup {NetTimeoutHttp}]

ApplyGet ==
  /\ ret = NoValue /\ arg.fn = "get"
  /\ \E userAgent \in UserAgents :
       LET config == getConfig(arg.url, arg.options, userAgent)
       IN ret' = [fn |-> "get", configs |-> <<config>>,
                  result |-> httpClientGet(arg.net, config.validateStatus)]
  /\ arg' = arg
  /\ Quiet

ApplyStream ==
  /\ ret = NoValue /\ arg.fn = "stream"
  /\ \E userAgent \in UserAgents :
       ret' = [fn |-> "stream",
               configs |-> <<streamConfig(arg.url, arg.options, userAgent)>>,
               result |-> httpClientStream(arg.net)]
  /\ arg' = arg
  /\ Quiet

\* a whole fetchMetadata call on an empty cache
ApplyFetchMetadata ==
  /\ ret = NoValue /\ arg.fn = "fetchMetadata"
  /\ \E userAgent \in UserAgents :
       LET rq == [IdleReq EXCEPT !.pc = "start", !.seq = 1, !.url = arg.url]
           st == fetchMetadataStart(variant, rq, <<>>, 0)
           sanitizedURL == st.rq.out[1].url
           config == getConfig(IF variant = "html" THEN sanitizedURL ELSE apiBase,
                               fetchOptions(variant, sanitizedURL), userAgent)
       IN ret' = IF st.rq.pc # "page"
                   THEN [fn |-> "fetchMetadata", configs |-> <<>>,
                         result |-> Throw(st.rq.err)]
                   ELSE [fn |-> "fetchMetadata", configs |-> <<config>>,
                         result |-> fetchMetadataResult(variant, arg.net)]
  /\ arg' = arg
  /\ Quiet

NextHttp == ApplyGet \/ ApplyStream \/ ApplyFetchMetadata

SpecHttp == InitHttp /\ [][NextHttp]_vars

\* the names of the headers getRandomHeaders sets
BrowserHeaders ==
  {"User-Agent", "Accept", "Accept-Language", "Accept-Encoding", "DNT", "Connection",
   "Upgrade-Insecure-Requests", "Sec-Fetch-Site", "Sec-Fetch-Mode", "Sec-Fetch-User",
   "Sec-Fetch-Dest", "Cache-Control"}

\* what the caller of get supplied under a name, or else the default
Supplied(options, name, default) ==
  IF name \in DOMAIN options THEN options[name] ELSE default

\* C23: every request issued through httpClient.get carries every header of
\* the browser-mimicking set, with the caller's headers on top, also when the
\* caller passes a headers option; timeout, maxRedirects and validateStatus
\* are the caller's when supplied and otherwise 30 s, 5 and 2xx-only.
C23_GetHeadersAndDefaults ==
  (ret # NoValue /\ ret.fn = "get") =>
    LET config == ret.configs[1]
        own == Supplied(arg.options, "headers", NoProps)
    IN /\ BrowserHeaders \subseteq DOMAIN config.headers
       /\ \A h \in DOMAIN own : config.headers[h] = own[h]
       /\ \A h \in BrowserHeaders \ DOMAIN own :
            IF h = "User-Agent" THEN config.headers[h] \in UserAgents
            ELSE config.headers[h] = getRandomHeaders("")[h]
       /\ config.timeout = Supplied(arg.options, "timeout", 30000)
       /\ config.maxRedirects = Supplied(arg.options, "maxRedirects", 5)
       /\ config.validateStatus = Supplied(arg.options, "validateStatus", 300)

\* the one kind of error a failed call raises, from its message
ErrorKinds(msg) ==
  {k \in {"timeout", "http", "network"} :
     CASE k = "timeout" -> includes(msg, "Request timeout") \/ includes(msg, "Stream timeout")
       [] k = "http" -> \E st \in {0, 403, 404} : includes(msg, HttpText(st))
       [] OTHER -> includes(msg, "Network error")}

\* the transport request failed: no response, or one whose status the
\* call's validateStatus refuses
TransportFailed ==
  \/ arg.net.kind # "http"
  \/ arg.net.status < 200
  \/ arg.net.status >= Supplied(ret.configs[1], "validateStatus", 300)

\* C24: a call of get or stream hands exactly one request to the transport;
\* when that request fails the call raises exactly one kind of error: a
\* timeout error for ECONNABORTED, otherwise an HTTP error with the status
\* when a response is attached, otherwise a network error; and a
\* fetchMetadata call issues at most one request.
C24_OneRequestOneError ==
  ret # NoValue =>
    /\ ret.fn \in {"get", "stream"} =>
         /\ Len(ret.configs) = 1
         /\ ret.result.threw <=> TransportFailed
         /\ ret.result.threw =>
              /\ ErrorKinds(ret.result.msg) =
                   {IF arg.net.kind = "timeout" THEN "timeout"
                    ELSE IF arg.net.status # 0 THEN "http" ELSE "network"}
              /\ (arg.net.kind # "timeout" /\ arg.net.status # 0) =>
                   includes(ret.result.msg, HttpText(arg.net.status))
    /\ ret.fn = "fetchMetadata" =>
         /\ Len(ret.configs) <= 1
         /\ (ret.result.threw /\ Len(ret.configs) = 1 /\ TransportFailed) =>
              ErrorKinds(ret.result.msg) =
                {IF arg.net.kind = "timeout" THEN "timeout"
                 ELSE IF arg.net.status # 0 THEN "http" ELSE "network"}

\* a get whose transport error has code ECONNABORTED and a response attached
\* raised the timeout error
C24_Witness ==
  /\ ret # NoValue /\ ret.fn = "get" /\ arg.net = NetTimeoutHttp
  /\ ret.result.threw /\ includes(ret.result.msg, "Request timeout")

-----------------------------------------------------------------------------
(* Shutdown of the server process (specification SpecShutdown).  arg is    *)
(* the process: the server, the listeners of its 'close' event in the      *)
(* order they were added, the deadlines of the pending timers, the number  *)
(* of signals received and the time of the first; ret is NoValue while the *)
(* process runs and then [code, by, at], its exit.  Time is in seconds.    *)

\* most signals the process receives
MaxSignals == 3

\* how far the clock moves at once, at most
Pace == 10

\* setTimeout(..., 30000)
ForceAfter == 30

\* server.close(cb): once('close', cb) while the server has its handle, and
\* otherwise once('close', () => cb(new ERR_SERVER_NOT_RUNNING()))
serverClose(p) ==
  [p EXCEPT !.listeners = Append(@, IF p.server = "listening" THEN "cb" ELSE "cbError"),
            !.server = "closing"]

\* gracefulShutdown at time t
gracefulShutdown(p, t) ==
  [serverClose(p) EXCEPT !.timers = @ \cup {t + ForceAfter},
                         !.signals = @ + 1,
                         !.first = IF p.signals = 0 THEN t ELSE @]

\* a 'close' event whose last listener decides the exit code
closeEmitted_Last(listeners) ==
  IF listeners[Len(listeners)] = "cb" THEN 0 ELSE 1

\* the 'close' event runs its listeners in order: the first one calls
\* process.exit, with 1 if it was given an error and else 0
closeEmitted(listeners) ==
  IF Head(listeners) = "cb" THEN 0 ELSE 1

InitShutdown ==
  /\ variant = "html" /\ now = 0 /\ cache = <<>>
  /\ req = [r \in Reqs |-> IdleReq] /\ calls = 0 /\ stored = <<>>
  /\ arg = [server |-> "listening", listeners |-> <<>>, timers |-> {},
            signals |-> 0, first |-> 0]
  /\ ret = NoValue

\* SIGTERM or SIGINT arrives
Signal ==
  /\ ret = NoValue /\ arg.signals < MaxSignals
  /\ arg' = gracefulShutdown(arg, now)
  /\ UNCHANGED <<ret, variant, now, cache, req, calls, stored>>

\* the last connection has ended: the closing server emits 'close'
ServerClosed ==
  /\ ret = NoValue /\ arg.server = "closing"
  /\ ret' = [code |-> closeEmitted(arg.listeners), by |-> "close", at |-> now]
  /\ arg' = [arg EXCEPT !.server = "closed"]
  /\ UNCHANGED <<variant, now, cache, req, calls, stored>>

\* a timer set by gracefulShutdown is due
TimerFires ==
  /\ ret = NoValue
  /\ \E d \in arg.timers : now >= d
  /\ ret' = [code |-> 1, by |-> "timer", at |-> now]
  /\ UNCHANGED <<arg, variant, cache, now, req, calls, stored>>

\* time passes, but not beyond a timer that is due
ShutdownTick ==
  /\ ret = NoValue
  /\ IF arg.timers = {}
       THEN now + Pace <= MaxTime /\ now' = now + Pace
       ELSE /\ \A d \in arg.timers : now < d
            /\ \E t \in now + 1 .. now + Pace :
                 /\ now' = t
                 /\ \/ t = now + Pace /\ \A d \in arg.timers : t <= d
                    \/ t \in arg.timers /\ \A d \in arg.timers : t <= d
  /\ UNCHANGED <<arg, ret, variant, cache, req, calls, stored>>

NextShutdown == Signal \/ ServerClosed \/ TimerFires \/ ShutdownTick

\* the clock runs and the event loop runs the timers that are due
SpecShutdown ==
  InitShutdown /\ [][NextShutdown]_vars
    /\ WF_vars(ShutdownTick) /\ WF_vars(TimerFires)

\* C30: after a SIGTERM or SIGINT the process eventually exits: with code 0
\* when the server closes within 30 seconds of the first signal, with code 1
\* when the 30-second timer fires first; also after several signals, and a
\* second signal during a clean shutdown leaves the exit code 0.
C30_ShutdownExits ==
  /\ [](ret # NoValue =>
          /\ ret.by = "close" => ret.code = 0 /\ ret.at <= arg.first + 30
          /\ ret.by = "timer" => ret.code = 1 /\ ret.at = arg.first + 30)
  /\ (arg.signals > 0) ~> (ret # NoValue)

\* two signals arrived and the server then closed in time: exit code 0
C30_Witness ==
  /\ ret # NoValue /\ arg.signals = 2 /\ ret.by = "close" /\ ret.code = 0

-----------------------------------------------------------------------------
(* One response per download request (specification SpecRoutes).           *)

\* C29: for a download request, whatever the order of a thrown error, an
\* upstream 'error' event and a client disconnect, once the response headers
\* have been sent no handler sets a status or writes a JSON body: the status
\* and the body of the response stay as they are.
C29_OneResponseStarted ==
  [][(req[1].kind = "download" /\ req[1].headersSent /\ req'[1].seq = req[1].seq) =>
       /\ req'[1].headersSent
       /\ req'[1].status = req[1].status
       /\ req'[1].body = req[1].body]_vars

\* the relay had sent its headers with status 200 when the upstream stream
\* reported an error, and the status is still 200
C29_Witness ==
  /\ req[1].kind = "download" /\ req[1].headersSent /\ req[1].status = 200
  /\ req[1].upstream = "errored"

-----------------------------------------------------------------------------
(* A download served by an upstream that chooses the video id and the      *)
(* media addresses (specification SpecDownload).                           *)

\* the URL an outbound request goes to
TargetOf(o) == IF o.op \in {"html", "api"} THEN o.url ELSE MediaUrl(o.media)

\* C26: every URL the service requests while serving a download (the page or
\* API fetch, the redirect-resolution GET of the media address, the streaming
\* GET of the resolved address) is one that isSSRFSafe accepts.
C26_OutboundSsrfSafe ==
  \A i \in 1..Len(req[1].out) : isSSRFSafe(TargetOf(req[1].out[i]))

====
